---- MODULE Spec2Model ----
(***************************************************************************)
(* A model of the Dhall evaluator and type checker of dhall-rust:          *)
(*   - the expression normalizer (dhall/src/normalize.rs),                 *)
(*   - the alpha-equivalence check of the first type checker               *)
(*     (dhall/src/typecheck.rs),                                           *)
(*   - the type checkers of dhall/src/phase/typecheck.rs and               *)
(*     dhall/src/semantics/phase/typecheck.rs.                             *)
(* Expressions are records with a "tag" field naming the ExprF variant.    *)
(***************************************************************************)
EXTENDS Integers, Sequences, FiniteSets, TLC

VARIABLES
    nIn,     \* normalizer: the expression handed to normalize
    nOut,    \* normalizer: the result of normalize, NoResult before the call
    nOut2,   \* normalizer: the result of normalizing nOut again
    eqL,     \* equality: left type of prop_equal
    eqR,     \* equality: right type of prop_equal
    eqM,     \* equality: a third type, compared with both
    eqRes,   \* equality: the results of the comparisons, NoResult before
    eqBuild, \* equality: "debug" (overflow checks panic) or "release" (wrap)
    tcVer,   \* type checker: which type checker runs ("phase" or "semantics")
    tcHash,  \* type checker: the order in which a HashMap hands out its keys
    tcIn,    \* type checker: the resolved expression handed to typecheck
    tcRes,   \* type checker: the result of typecheck, NoResult before
    cxHeap,  \* contexts: the contexts built so far, each a vector of entries
    cxRes,   \* contexts: the last lookup and what it returned
    thStore, \* thunks: the thunk cells, shared by reference
    thRes,   \* thunks: the last operation on a thunk and what it returned
    vfIn,    \* values: the operation on a value and its arguments
    vfOut,   \* values: the result of the operation, NoResult before
    stIn,    \* static types: the Rust type whose SimpleStaticType is asked
    stOut,   \* static types: the simple type it gets, NoResult before
    mvIn,    \* match_vec: the vector handed to the macro
    mvOut    \* match_vec: what the macro evaluates to, NoResult before

vars ==
    <<nIn, nOut, nOut2, eqL, eqR, eqM, eqRes, eqBuild, tcVer, tcHash, tcIn, tcRes,
      cxHeap, cxRes, thStore, thRes, vfIn, vfOut, stIn, stOut, mvIn, mvOut>>
nVars == <<nIn, nOut, nOut2>>
eqVars == <<eqL, eqR, eqM, eqRes, eqBuild>>
tcVars == <<tcVer, tcHash, tcIn, tcRes>>
cxVars == <<cxHeap, cxRes>>
thVars == <<thStore, thRes>>
vfVars == <<vfIn, vfOut>>
stVars == <<stIn, stOut>>
mvVars == <<mvIn, mvOut>>

NoResult == [tag |-> "NoResult"]

\* the parts of the program a specification does not run
NormIdle == nIn = NoResult /\ nOut = NoResult /\ nOut2 = NoResult
EqIdle ==
    /\ eqL = NoResult /\ eqR = NoResult /\ eqM = NoResult /\ eqRes = NoResult
    /\ eqBuild = "none"
TcIdle ==
    tcVer = "none" /\ tcHash = "none" /\ tcIn = NoResult /\ tcRes = NoResult
CtxIdle == cxHeap = NoResult /\ cxRes = NoResult
ThunkIdle == thStore = NoResult /\ thRes = NoResult
ValueIdle == vfIn = NoResult /\ vfOut = NoResult
StaticIdle == stIn = NoResult /\ stOut = NoResult
MatchIdle == mvIn = NoResult /\ mvOut = NoResult

(***************************************************************************)
(* Bounds of the model.                                                    *)
(***************************************************************************)
\* Largest Natural literal of the inputs.
MaxNat == 3
\* Depth of the call stack available to normalize_ref: a call nested deeper
\* overflows the stack.
MaxStack == 24
\* Width of usize/isize in bits (scaled down from the 64 of the target).
UsizeBits == 8
\* Number of contexts a run builds, the empty one included.
MaxContexts == 4

(***************************************************************************)
(* Expressions: the variants of ExprF.                                     *)
(***************************************************************************)
Const(c) == [tag |-> "Const", c |-> c]
Var(x, n) == [tag |-> "Var", x |-> x, n |-> n]
Lam(x, t, b) == [tag |-> "Lam", x |-> x, t |-> t, b |-> b]
Pi(x, t, b) == [tag |-> "Pi", x |-> x, t |-> t, b |-> b]
\* App(f, args): args is the vector of arguments
App(f, args) == [tag |-> "App", f |-> f, args |-> args]
\* Let(x, t, v, b): t is the optional annotation, a sequence of length 0 or 1
Let(x, t, v, b) == [tag |-> "Let", x |-> x, ot |-> t, v |-> v, b |-> b]
Annot(e, t) == [tag |-> "Annot", e |-> e, t |-> t]
Builtin(name) == [tag |-> "Builtin", name |-> name]
BoolLit(val) == [tag |-> "BoolLit", val |-> val]
NaturalLit(val) == [tag |-> "NaturalLit", val |-> val]
IntegerLit(val) == [tag |-> "IntegerLit", val |-> val]
TextLit(s) == [tag |-> "TextLit", s |-> s]
EmptyListLit(t) == [tag |-> "EmptyListLit", t |-> t]
NEListLit(xs) == [tag |-> "NEListLit", xs |-> xs]
EmptyOptionalLit(t) == [tag |-> "EmptyOptionalLit", t |-> t]
NEOptionalLit(e) == [tag |-> "NEOptionalLit", e |-> e]
BoolIf(c, y, n) == [tag |-> "BoolIf", cond |-> c, yes |-> y, no |-> n]
BinOp(op, l, r) == [tag |-> "BinOp", op |-> op, l |-> l, r |-> r]
\* maps (BTreeMap<Label, _>) are functions from labels
RecordType(kts) == [tag |-> "RecordType", kvs |-> kts]
RecordLit(kvs) == [tag |-> "RecordLit", kvs |-> kvs]
\* UnionType: each alternative maps to an optional type (length 0 or 1)
UnionType(kts) == [tag |-> "UnionType", kts |-> kts]
UnionLit(k, v, kts) == [tag |-> "UnionLit", k |-> k, v |-> v, kts |-> kts]
Merge(h, u, t) == [tag |-> "Merge", h |-> h, u |-> u, ot |-> t]
Field(e, l) == [tag |-> "Field", e |-> e, l |-> l]
Projection(e, ls) == [tag |-> "Projection", e |-> e, ls |-> ls]
Note(e) == [tag |-> "Note", e |-> e]
Embed(e) == [tag |-> "Embed", e |-> e]
\* ValueF::AppliedBuiltin(b, args): a builtin with the arguments it is stuck on
AppliedBuiltin(b, args) == [tag |-> "AppliedBuiltin", b |-> b, args |-> args]
\* ValueF::TextLit: the segments are text runs and interpolated values
ValueTextLit(elts) == [tag |-> "ValueTextLit", elts |-> elts]
ITText(s) == [kind |-> "Text", s |-> s]
ITExpr(e) == [kind |-> "Expr", e |-> e]

EmptyMap == [k \in {} |-> NoResult]

\* the variable V(x, n)
V(x, n) == [x |-> x, n |-> n]

MapSeq(s, F(_)) == [i \in DOMAIN s |-> F(s[i])]
MapOptMap(m, F(_)) == [k \in DOMAIN m |-> MapSeq(m[k], F)]

(***************************************************************************)
(* ExprF::map_subexprs_with_special_handling_of_binders: F on every        *)
(* immediate sub-expression, G(label, body) on a sub-expression that lies  *)
(* under the binder of the node.                                           *)
(***************************************************************************)
MapSubB(e, F(_), G(_, _)) ==
    CASE e.tag \in {"Lam", "Pi"} -> [e EXCEPT !.t = F(e.t), !.b = G(e.x, e.b)]
      [] e.tag = "Let" ->
            [e EXCEPT !.ot = MapSeq(e.ot, F), !.v = F(e.v), !.b = G(e.x, e.b)]
      [] e.tag = "App" -> [e EXCEPT !.f = F(e.f), !.args = MapSeq(e.args, F)]
      [] e.tag = "AppliedBuiltin" -> [e EXCEPT !.args = MapSeq(e.args, F)]
      [] e.tag = "ValueTextLit" ->
            [e EXCEPT !.elts = [i \in DOMAIN e.elts |->
                                   IF e.elts[i].kind = "Expr"
                                   THEN ITExpr(F(e.elts[i].e)) ELSE e.elts[i]]]
      [] e.tag = "Annot" -> [e EXCEPT !.e = F(e.e), !.t = F(e.t)]
      [] e.tag \in {"EmptyListLit", "EmptyOptionalLit"} -> [e EXCEPT !.t = F(e.t)]
      [] e.tag = "NEListLit" -> [e EXCEPT !.xs = MapSeq(e.xs, F)]
      [] e.tag \in {"NEOptionalLit", "Note", "Field", "Projection"} ->
            [e EXCEPT !.e = F(e.e)]
      [] e.tag = "BoolIf" ->
            [e EXCEPT !.cond = F(e.cond), !.yes = F(e.yes), !.no = F(e.no)]
      [] e.tag = "BinOp" -> [e EXCEPT !.l = F(e.l), !.r = F(e.r)]
      [] e.tag \in {"RecordType", "RecordLit"} -> [e EXCEPT !.kvs = MapSeq(e.kvs, F)]
      [] e.tag = "UnionType" -> [e EXCEPT !.kts = MapOptMap(e.kts, F)]
      [] e.tag = "UnionLit" -> [e EXCEPT !.v = F(e.v), !.kts = MapOptMap(e.kts, F)]
      [] e.tag = "Merge" ->
            [e EXCEPT !.h = F(e.h), !.u = F(e.u), !.ot = MapSeq(e.ot, F)]
      [] OTHER -> e

\* ExprF::map_ref_simple: the same function on every immediate sub-expression
MapSub(e, F(_)) == MapSubB(e, F, LAMBDA y, s : F(s))

\* the immediate sub-expressions of a node, as a set
SubExprs(e) ==
    LET seqs(s) == {s[i] : i \in DOMAIN s}
        opts(m) == UNION {seqs(m[k]) : k \in DOMAIN m}
    IN  CASE e.tag \in {"Lam", "Pi"} -> {e.t, e.b}
          [] e.tag = "Let" -> seqs(e.ot) \cup {e.v, e.b}
          [] e.tag = "App" -> {e.f} \cup seqs(e.args)
          [] e.tag = "AppliedBuiltin" -> seqs(e.args)
          [] e.tag = "ValueTextLit" ->
                {e.elts[i].e : i \in {j \in DOMAIN e.elts : e.elts[j].kind = "Expr"}}
          [] e.tag = "Annot" -> {e.e, e.t}
          [] e.tag \in {"EmptyListLit", "EmptyOptionalLit"} -> {e.t}
          [] e.tag = "NEListLit" -> seqs(e.xs)
          [] e.tag \in {"NEOptionalLit", "Note", "Field", "Projection"} -> {e.e}
          [] e.tag = "BoolIf" -> {e.cond, e.yes, e.no}
          [] e.tag = "BinOp" -> {e.l, e.r}
          [] e.tag \in {"RecordType", "RecordLit"} -> seqs(e.kvs)
          [] e.tag = "UnionType" -> opts(e.kts)
          [] e.tag = "UnionLit" -> {e.v} \cup opts(e.kts)
          [] e.tag = "Merge" -> {e.h, e.u} \cup seqs(e.ot)
          [] OTHER -> {}

(***************************************************************************)
(* Variable discipline: shift and subst_shift.                             *)
(***************************************************************************)
\* var.under_binder(y): the threshold rises under a binder of the same label
under_binder(var, y) == IF var.x = y THEN V(var.x, var.n + 1) ELSE var

\* shift of one variable: V(y, m) with the label of var and m at or above its
\* index moves by delta, every other variable is left alone
shift_var(delta, var, v) ==
    IF v.x = var.x /\ var.n <= v.n THEN V(v.x, v.n + delta) ELSE v

RECURSIVE shift(_, _, _)

\* shift keeping the threshold under every binder: the mutant
shift_same_threshold(delta, var, e) ==
    IF e.tag = "Var"
    THEN LET v == shift_var(delta, var, V(e.x, e.n)) IN Var(v.x, v.n)
    ELSE MapSub(e, LAMBDA s : shift(delta, var, s))

shift(delta, var, e) ==
    IF e.tag = "Var"
    THEN LET v == shift_var(delta, var, V(e.x, e.n)) IN Var(v.x, v.n)
    ELSE MapSubB(e, LAMBDA s : shift(delta, var, s),
                    LAMBDA y, s : shift(delta, under_binder(var, y), s))

\* shift gives None when V::shift does: an index would fall below zero
RECURSIVE shift_underflows(_, _, _)
shift_underflows(delta, var, e) ==
    IF e.tag = "Var"
    THEN shift_var(delta, var, V(e.x, e.n)).n < 0
    ELSE TRUE \in SubExprs(MapSubB(e,
             LAMBDA s : shift_underflows(delta, var, s),
             LAMBDA y, s : shift_underflows(delta, under_binder(var, y), s)))

\* ValueF::shift as an Option: <<>> is None, <<e>> is Some(e)
shift_checked(delta, var, e) ==
    IF shift_underflows(delta, var, e) THEN <<>> ELSE <<shift(delta, var, e)>>

RECURSIVE subst_shift(_, _, _)
subst_shift(var, val, e) ==
    IF e.tag = "Var"
    THEN IF V(e.x, e.n) = var
         THEN val
         ELSE LET v == shift_var(-1, var, V(e.x, e.n)) IN Var(v.x, v.n)
    ELSE MapSubB(e, LAMBDA s : subst_shift(var, val, s),
                    LAMBDA y, s : subst_shift(under_binder(var, y),
                                              shift(1, V(y, 0), val), s))

(***************************************************************************)
(* WhatNext: what normalize_ref does with a node once its children are     *)
(* normalized.  Continue and ContinueSub recurse on the expression; Done,  *)
(* DoneRef and DoneRefSub return it; DoneAsIs returns the node itself.     *)
(***************************************************************************)
Continue(e) == [kind |-> "Continue", e |-> e]
Done(e) == [kind |-> "Done", e |-> e]
DoneAsIs == [kind |-> "DoneAsIs"]

\* args[k+1..]: what a slice pattern [p1, .., pk, rest..] binds to rest
Rest(args, k) == SubSeq(args, k + 1, Len(args))

\* the remaining arguments put back last one first: the mutant
PutBackReversed(ret, rest) ==
    Continue(App(ret, [i \in DOMAIN rest |-> rest[Len(rest) + 1 - i]]))

\* the tail of apply_builtin: put the remaining arguments back and eval again
PutBack(ret, rest) == Continue(App(ret, rest))

\* `n as isize`: the two's complement reading of a usize
AsIsize(n) == IF n >= 2 ^ (UsizeBits - 1) THEN n - 2 ^ UsizeBits ELSE n

Reverse(s) == [i \in DOMAIN s |-> s[Len(s) + 1 - i]]

\* xs.iter().fold(nil, |acc, x| cons x acc), the fold without rev(): the
\* elements are consed from the last one inwards
RECURSIVE FoldConsNoRev(_, _, _, _)
FoldConsNoRev(xs, i, cons, nil) ==
    IF i > Len(xs) THEN nil
    ELSE App(cons, <<xs[Len(xs) + 1 - i], FoldConsNoRev(xs, i + 1, cons, nil)>>)

\* xs.iter().rev().fold(nil, |acc, x| cons x acc)
RECURSIVE FoldConsFrom(_, _, _, _)
FoldConsFrom(xs, i, cons, nil) ==
    IF i > Len(xs) THEN nil
    ELSE App(cons, <<xs[i], FoldConsFrom(xs, i + 1, cons, nil)>>)

\* the arms of apply_builtin on literals: Natural, Integer and List builtins
apply_builtin_literal(b, args) ==
    LET n == Len(args)
        a1 == args[1]
        a2 == args[2]
    IN  CASE b = "OptionalNone" /\ n >= 1 ->
                PutBack(EmptyOptionalLit(a1), Rest(args, 1))
          [] b = "NaturalIsZero" /\ n >= 1 /\ a1.tag = "NaturalLit" ->
                PutBack(BoolLit(a1.val = 0), Rest(args, 1))
          [] b = "NaturalEven" /\ n >= 1 /\ a1.tag = "NaturalLit" ->
                PutBack(BoolLit(a1.val % 2 = 0), Rest(args, 1))
          [] b = "NaturalOdd" /\ n >= 1 /\ a1.tag = "NaturalLit" ->
                PutBack(BoolLit(a1.val % 2 # 0), Rest(args, 1))
          [] b = "NaturalToInteger" /\ n >= 1 /\ a1.tag = "NaturalLit" ->
                PutBack(IntegerLit(AsIsize(a1.val)), Rest(args, 1))
          [] b = "NaturalShow" /\ n >= 1 /\ a1.tag = "NaturalLit" ->
                PutBack(TextLit(ToString(a1.val)), Rest(args, 1))
          [] b = "ListLength" /\ n >= 2 /\ a2.tag = "EmptyListLit" ->
                PutBack(NaturalLit(0), Rest(args, 2))
          [] b = "ListLength" /\ n >= 2 /\ a2.tag = "NEListLit" ->
                PutBack(NaturalLit(Len(a2.xs)), Rest(args, 2))
          [] b = "ListHead" /\ n >= 2 /\ a2.tag = "EmptyListLit" ->
                PutBack(EmptyOptionalLit(a2.t), Rest(args, 2))
          [] b = "ListHead" /\ n >= 2 /\ a2.tag = "NEListLit" ->
                PutBack(NEOptionalLit(a2.xs[1]), Rest(args, 2))
          [] b = "ListLast" /\ n >= 2 /\ a2.tag = "EmptyListLit" ->
                PutBack(EmptyOptionalLit(a2.t), Rest(args, 2))
          [] b = "ListLast" /\ n >= 2 /\ a2.tag = "NEListLit" ->
                PutBack(NEOptionalLit(a2.xs[Len(a2.xs)]), Rest(args, 2))
          [] b = "ListReverse" /\ n >= 2 /\ a2.tag = "EmptyListLit" ->
                PutBack(EmptyListLit(a2.t), Rest(args, 2))
          [] b = "ListReverse" /\ n >= 2 /\ a2.tag = "NEListLit" ->
                PutBack(NEListLit(Reverse(a2.xs)), Rest(args, 2))
          [] b = "ListIndexed" /\ n >= 2 /\ a2.tag = "EmptyListLit" ->
                PutBack(EmptyListLit(RecordType(
                            [index |-> Builtin("Natural"), value |-> a2.t])),
                        Rest(args, 2))
          [] b = "ListIndexed" /\ n >= 2 /\ a2.tag = "NEListLit" ->
                PutBack(NEListLit([i \in DOMAIN a2.xs |->
                            RecordLit([index |-> NaturalLit(i - 1),
                                       value |-> a2.xs[i]])]),
                        Rest(args, 2))
          [] b = "IntegerShow" /\ n >= 1 /\ a1.tag = "IntegerLit" ->
                PutBack(TextLit((IF a1.val < 0 THEN "" ELSE "+")
                                    \o ToString(a1.val)),
                        Rest(args, 1))
          [] OTHER -> DoneAsIs

\* a fusion test that accepts a fold of any kind
IsFoldOfAnyKind(g, fold, k) ==
    /\ g.tag = "App"
    /\ g.f.tag = "Builtin"
    /\ g.f.name \in {"ListFold", "OptionalFold", "NaturalFold"}
    /\ Len(g.args) >= k + 1

\* `if let App(f2, args2) = g` with f2 the builtin `fold` and args2 matching
\* [p1, .., pk, x, rest_inner..]: the fold/build fusion pattern
IsFoldOf(g, fold, k) ==
    /\ g.tag = "App"
    /\ g.f = Builtin(fold)
    /\ Len(g.args) >= k + 1

\* the fused result: x applied to rest_inner, the build's expansion bypassed
Fused(g, k, rest) == PutBack(App(g.args[k + 1], Rest(g.args, k + 1)), rest)

\* λ(x : a0) -> λ(xs : List a1) -> [ x ] # xs
ListCons(a0) ==
    Lam("x", a0,
        Lam("xs", App(Builtin("List"), <<shift(1, V("x", 0), a0)>>),
            BinOp("ListAppend", NEListLit(<<Var("x", 0)>>), Var("xs", 0))))

\* the expansion of a build that is not fused: g applied to the carrier
\* type, the cons/just/succ lambda and the nil/nothing/zero
BuildExpansion(b, a0, g) ==
    CASE b = "ListBuild" ->
            App(g, <<App(Builtin("List"), <<a0>>), ListCons(a0), EmptyListLit(a0)>>)
      [] b = "OptionalBuild" ->
            App(g, <<App(Builtin("Optional"), <<a0>>),
                     Lam("x", a0, NEOptionalLit(Var("x", 0))),
                     App(Builtin("OptionalNone"), <<a0>>)>>)
      [] b = "NaturalBuild" ->
            App(g, <<Builtin("Natural"),
                     Lam("x", Builtin("Natural"),
                         BinOp("NaturalPlus", Var("x", 0), NaturalLit(1))),
                     NaturalLit(0)>>)

\* the arms of apply_builtin for List/build, Optional/build, Natural/build
apply_builtin_build(b, args) ==
    LET n == Len(args)
        a1 == args[1]
        a2 == args[2]
    IN  CASE b = "ListBuild" /\ n >= 2 ->
                IF IsFoldOf(a2, "ListFold", 1)
                THEN Fused(a2, 1, Rest(args, 2))
                ELSE PutBack(BuildExpansion(b, a1, a2), Rest(args, 2))
          [] b = "OptionalBuild" /\ n >= 2 ->
                IF IsFoldOf(a2, "OptionalFold", 1)
                THEN Fused(a2, 1, Rest(args, 2))
                ELSE PutBack(BuildExpansion(b, a1, a2), Rest(args, 2))
          [] b = "NaturalBuild" /\ n >= 1 ->
                IF IsFoldOf(a1, "NaturalFold", 0)
                THEN Fused(a1, 0, Rest(args, 1))
                ELSE PutBack(BuildExpansion(b, a1, a1), Rest(args, 1))
          [] OTHER -> DoneAsIs

\* a Natural/fold step that counts down but never applies succ
NaturalFoldStepDropsSucc(args) ==
    App(Builtin("NaturalFold"),
        <<NaturalLit(args[1].val - 1), args[2], args[3], args[4]>>)

\* the step of Natural/fold on a literal n > 0:
\* succ (Natural/fold (n - 1) t succ zero)
NaturalFoldStep(args) ==
    App(args[3],
        <<App(Builtin("NaturalFold"),
              <<NaturalLit(args[1].val - 1), args[2], args[3], args[4]>>)>>)

\* the arms of apply_builtin for List/fold, Optional/fold, Natural/fold
apply_builtin_fold(b, args) ==
    LET n == Len(args)
        a1 == args[1]
        a2 == args[2]
    IN  CASE b = "ListFold" /\ n >= 5 /\ a2.tag = "EmptyListLit" ->
                PutBack(args[5], Rest(args, 5))
          [] b = "ListFold" /\ n >= 5 /\ a2.tag = "NEListLit" ->
                PutBack(FoldConsFrom(a2.xs, 1, args[4], args[5]), Rest(args, 5))
          [] b = "OptionalFold" /\ n >= 5 /\ a2.tag = "NEOptionalLit" ->
                PutBack(App(args[4], <<a2.e>>), Rest(args, 5))
          [] b = "OptionalFold" /\ n >= 5 /\ a2.tag = "EmptyOptionalLit" ->
                PutBack(args[5], Rest(args, 5))
          [] b = "NaturalFold" /\ n >= 4 /\ a1 = NaturalLit(0) ->
                PutBack(args[4], Rest(args, 4))
          [] b = "NaturalFold" /\ n >= 4 /\ a1.tag = "NaturalLit" ->
                PutBack(NaturalFoldStep(args), Rest(args, 4))
          [] OTHER -> DoneAsIs

BuildNames == {"ListBuild", "OptionalBuild", "NaturalBuild"}
FoldNames == {"ListFold", "OptionalFold", "NaturalFold"}

\* apply_builtin: the rewrite rule of builtin b on the argument prefix that
\* matches its arity and shape, DoneAsIs when no rule matches
apply_builtin(b, args) ==
    CASE b \in BuildNames -> apply_builtin_build(b, args)
      [] b \in FoldNames -> apply_builtin_fold(b, args)
      [] OTHER -> apply_builtin_literal(b, args)

(***************************************************************************)
(* normalize_ref: the match on a node whose children are normalized.       *)
(***************************************************************************)
\* the arms on App with a beta reduction that is not normalized again
what_next_app_beta_done(expr) ==
    IF Len(expr.args) = 0 THEN Done(expr.f)
    ELSE IF expr.f.tag = "App"
    THEN Continue(App(expr.f.f, expr.f.args \o expr.args))
    ELSE IF expr.f.tag = "Builtin" THEN apply_builtin(expr.f.name, expr.args)
    ELSE IF expr.f.tag = "Lam"
    THEN Done(App(subst_shift(V(expr.f.x, 0), expr.args[1], expr.f.b),
                  Tail(expr.args)))
    ELSE DoneAsIs

\* the arms on App, in the order of the match
what_next_app(expr) ==
    IF Len(expr.args) = 0 THEN Done(expr.f)
    ELSE IF expr.f.tag = "App"
    THEN Continue(App(expr.f.f, expr.f.args \o expr.args))
    ELSE IF expr.f.tag = "Builtin" THEN apply_builtin(expr.f.name, expr.args)
    ELSE IF expr.f.tag = "Lam"
    THEN \* Beta reduce
         Continue(App(subst_shift(V(expr.f.x, 0), expr.args[1], expr.f.b),
                      Tail(expr.args)))
    ELSE DoneAsIs

\* the arms on BinOp
what_next_binop(expr) ==
    LET op == expr.op
        l == expr.l
        r == expr.r
        both(tag) == l.tag = tag /\ r.tag = tag
    IN  IF op = "BoolAnd" /\ both("BoolLit") THEN Done(BoolLit(l.val /\ r.val))
        ELSE IF op = "BoolOr" /\ both("BoolLit") THEN Done(BoolLit(l.val \/ r.val))
        ELSE IF op = "BoolEQ" /\ both("BoolLit") THEN Done(BoolLit(l.val = r.val))
        ELSE IF op = "BoolNE" /\ both("BoolLit") THEN Done(BoolLit(l.val # r.val))
        ELSE IF op = "NaturalPlus" /\ both("NaturalLit")
        THEN Done(NaturalLit(l.val + r.val))
        ELSE IF op = "NaturalTimes" /\ both("NaturalLit")
        THEN Done(NaturalLit(l.val * r.val))
        ELSE IF op = "TextAppend" /\ both("TextLit") THEN Done(TextLit(l.s \o r.s))
        ELSE IF op = "ListAppend" /\ l.tag = "EmptyListLit" THEN Done(r)
        ELSE IF op = "ListAppend" /\ r.tag = "EmptyListLit" THEN Done(l)
        ELSE IF op = "ListAppend" /\ both("NEListLit")
        THEN Done(NEListLit(l.xs \o r.xs))
        ELSE DoneAsIs

what_next(expr) ==
    CASE expr.tag = "Let" ->
            Continue(subst_shift(V(expr.x, 0), expr.v, expr.b))
      [] expr.tag = "Annot" -> Done(expr.e)
      [] expr.tag = "Note" -> Done(expr.e)
      [] expr.tag = "App" -> what_next_app(expr)
      [] expr.tag = "BoolIf" ->
            IF expr.cond = BoolLit(TRUE) THEN Done(expr.yes)
            ELSE IF expr.cond = BoolLit(FALSE) THEN Done(expr.no)
            ELSE DoneAsIs
      [] expr.tag = "BinOp" -> what_next_binop(expr)
      [] expr.tag = "Merge" ->
            IF expr.h.tag = "RecordLit" /\ expr.u.tag = "UnionLit"
            THEN IF expr.u.k \in DOMAIN expr.h.kvs
                 THEN Continue(App(expr.h.kvs[expr.u.k], <<expr.u.v>>))
                 ELSE DoneAsIs
            ELSE DoneAsIs
      [] expr.tag = "Field" ->
            IF expr.e.tag = "RecordLit" /\ expr.l \in DOMAIN expr.e.kvs
            THEN Done(expr.e.kvs[expr.l])
            ELSE DoneAsIs
      [] expr.tag = "Projection" ->
            IF expr.ls = {} THEN Done(RecordLit(EmptyMap))
            ELSE IF expr.e.tag = "RecordLit"
            THEN Done(RecordLit([l \in expr.ls \cap DOMAIN expr.e.kvs |->
                                    expr.e.kvs[l]]))
            ELSE DoneAsIs
      [] expr.tag = "Embed" -> Done(expr.e)
      [] OTHER -> DoneAsIs

\* what a call of normalize_ref yields when the call stack is exhausted
StackOverflow == [tag |-> "StackOverflow"]

\* normalize_ref(expr) with d stack frames left: normalize the children, then
\* act on what_next; every recursive call takes a frame
RECURSIVE normalize_ref(_, _)
normalize_ref(e, d) ==
    IF d = 0 THEN StackOverflow
    ELSE LET expr == MapSub(e, LAMBDA s : normalize_ref(s, d - 1))
         IN  IF StackOverflow \in SubExprs(expr) THEN StackOverflow
             ELSE LET wn == what_next(expr)
                  IN  CASE wn.kind = "Continue" -> normalize_ref(wn.e, d - 1)
                        [] wn.kind = "Done" -> wn.e
                        [] OTHER -> expr

\* normalize: the entry point, on a fresh stack
normalize(e) == normalize_ref(e, MaxStack)

(***************************************************************************)
(* The inputs of the normalizer.                                           *)
(***************************************************************************)
BNatural == Builtin("Natural")
BBool == Builtin("Bool")
ListOf(t) == App(Builtin("List"), <<t>>)
OptionalOf(t) == App(Builtin("Optional"), <<t>>)
App1(f, a) == App(f, <<a>>)

\* the list literal [1, .., k]
NatList(k) == NEListLit([i \in 1..k |-> NaturalLit(i)])

\* (λ(x : t) → x x) (λ(x : t) → x x): the self-application, ill-typed
SelfApply(t) == Lam("x", t, App1(Var("x", 0), Var("x", 0)))
Omega(t) == App1(SelfApply(t), SelfApply(t))
OmegaInputs ==
    {Omega(BNatural), Omega(BBool), NEListLit(<<Omega(BNatural)>>),
     Lam("y", BNatural, Omega(BNatural))}

\* λ(x : Natural) → x + 1
SuccLam == Lam("x", BNatural, BinOp("NaturalPlus", Var("x", 0), NaturalLit(1)))

\* <<t, succ, zero>>: the last three arguments of Natural/fold
NatFoldArgs ==
    {<<BNatural, SuccLam, NaturalLit(k)>> : k \in 0..MaxNat}
    \cup {<<BNatural, Var("f", 0), Var("z", 0)>>,
          <<BNatural, Var("f", 0), NaturalLit(0)>>,
          <<BNatural,
            Lam("x", BNatural, BinOp("NaturalTimes", Var("x", 0), NaturalLit(2))),
            NaturalLit(1)>>,
          <<BBool,
            Lam("b", BBool, BinOp("BoolEQ", Var("b", 0), BoolLit(FALSE))),
            BoolLit(TRUE)>>,
          <<ListOf(BNatural),
            Lam("l", ListOf(BNatural),
                BinOp("ListAppend", NatList(1), Var("l", 0))),
            EmptyListLit(BNatural)>>,
          <<BNatural, Lam("x", BNatural, Var("y", 0)), Var("z", 0)>>}

NaturalFoldOf(n, a) == App(Builtin("NaturalFold"), <<NaturalLit(n)>> \o a)
NatFoldInputs == {NaturalFoldOf(n, a) : n \in 0..MaxNat, a \in NatFoldArgs}

\* succ applied n times to zero
RECURSIVE Iterate(_, _, _)
Iterate(succ, n, zero) ==
    IF n = 0 THEN zero ELSE App1(succ, Iterate(succ, n - 1, zero))

\* K/build [a] g and K/fold [a] x, for the kind K of List, Optional, Natural
Kinds == {"List", "Optional", "Natural"}
BuildOf(K, a, g) ==
    App(Builtin(K \o "Build"), IF K = "Natural" THEN <<g>> ELSE <<a, g>>)
FoldOf(K, a, x) ==
    App(Builtin(K \o "Fold"), IF K = "Natural" THEN <<x>> ELSE <<a, x>>)

\* the values a fold is applied to: stuck terms, literals and redexes
FoldedValues ==
    {Var("x", 0), Var("y", 1), NatList(2), NaturalLit(2),
     NEOptionalLit(NaturalLit(1)), EmptyListLit(BNatural),
     App1(Lam("y", BNatural, Var("y", 0)), NaturalLit(MaxNat)),
     App1(Var("h", 0), NaturalLit(1)),
     BinOp("ListAppend", NatList(1), NatList(2))}
ElemTypes == {BNatural, BBool, Var("a", 0)}

BuildFoldInputs ==
    {BuildOf(K1, a, FoldOf(K2, b, x)) :
        K1 \in Kinds, K2 \in Kinds, a \in {BNatural, Var("a", 0)},
        b \in {BNatural, BBool}, x \in FoldedValues}

\* λ(list : Type) → λ(cons : a → list → list) → λ(nil : list) → cons 1 nil
ListGen ==
    Lam("list", Const("Type"),
        Lam("cons", Pi("_", BNatural, Pi("_", Var("list", 0), Var("list", 0))),
            Lam("nil", Var("list", 0),
                App(Var("cons", 0), <<NaturalLit(1), Var("nil", 0)>>))))
\* λ(optional : Type) → λ(just : a → optional) → λ(nothing : optional) → just 1
OptionalGen ==
    Lam("optional", Const("Type"),
        Lam("just", Pi("_", BNatural, Var("optional", 0)),
            Lam("nothing", Var("optional", 0),
                App1(Var("just", 0), NaturalLit(1)))))
\* λ(natural : Type) → λ(succ : natural → natural) → λ(zero : natural) → succ zero
NaturalGen ==
    Lam("natural", Const("Type"),
        Lam("succ", Pi("_", Var("natural", 0), Var("natural", 0)),
            Lam("zero", Var("natural", 0),
                App1(Var("succ", 0), Var("zero", 0)))))
GenOf(K) ==
    CASE K = "List" -> ListGen [] K = "Optional" -> OptionalGen
      [] OTHER -> NaturalGen

\* the functions a build is applied to under a fold: a variable, a generator
BuiltFrom(K) == {Var("g", 0), GenOf(K)}
\* further arguments of the fold: none, or the carrier, cons/succ and nil/zero
FoldRest == {<<>>, <<BNatural, Var("c", 0), Var("n", 0)>>}

FoldBuildInputs ==
    {App(FoldOf(K, a, BuildOf(K, a, g)), rest) :
        K \in Kinds, a \in {BNatural}, g \in {Var("g", 0), ListGen, OptionalGen, NaturalGen},
        rest \in FoldRest}

\* well-typed closed expressions with a redex
WellTypedInputs ==
    {App1(SuccLam, NaturalLit(n)) : n \in 0..MaxNat}
    \cup {App(Builtin(b), <<NaturalLit(n)>>) :
            b \in {"NaturalIsZero", "NaturalEven", "NaturalOdd",
                   "NaturalToInteger", "NaturalShow"},
            n \in 0..MaxNat}
    \cup {App(Builtin(b), <<BNatural, l>>) :
            b \in {"ListLength", "ListHead", "ListLast", "ListReverse",
                   "ListIndexed"},
            l \in {NatList(k) : k \in 1..MaxNat} \cup {EmptyListLit(BNatural)}}
    \cup {App(Builtin("ListFold"),
              <<BNatural, l, BNatural,
                Lam("x", BNatural, Lam("y", BNatural,
                    BinOp("NaturalPlus", Var("x", 0), Var("y", 0)))),
                NaturalLit(0)>>) :
            l \in {NatList(k) : k \in 1..MaxNat} \cup {EmptyListLit(BNatural)}}
    \cup {App(Builtin("OptionalFold"), <<BNatural, o, BNatural, SuccLam, NaturalLit(0)>>) :
            o \in {NEOptionalLit(NaturalLit(1)), EmptyOptionalLit(BNatural),
                   App1(Builtin("OptionalNone"), BNatural)}}
    \cup {BuildOf(K, BNatural, GenOf(K)) : K \in Kinds}
    \cup {BoolIf(BoolLit(c), TextLit("yes"), TextLit("no")) : c \in BOOLEAN}
    \cup {BinOp(op, BoolLit(l), BoolLit(r)) :
            op \in {"BoolAnd", "BoolOr", "BoolEQ", "BoolNE"},
            l \in BOOLEAN, r \in BOOLEAN}
    \cup {BinOp(op, NaturalLit(l), NaturalLit(r)) :
            op \in {"NaturalPlus", "NaturalTimes"}, l \in 0..1, r \in {MaxNat}}
    \cup {BinOp("ListAppend", l, r) :
            l \in {NatList(1), EmptyListLit(BNatural)},
            r \in {NatList(2), EmptyListLit(BNatural)}}
    \cup {BinOp("TextAppend", TextLit("a"), TextLit("b")),
          Let("x", <<>>, NaturalLit(1),
              BinOp("NaturalPlus", Var("x", 0), Var("x", 0))),
          Let("x", <<BNatural>>, NaturalLit(1),
              Lam("x", BNatural, BinOp("NaturalPlus", Var("x", 0), Var("x", 1)))),
          Annot(App1(SuccLam, NaturalLit(1)), BNatural),
          Note(App(Lam("x", BNatural, Lam("y", BNatural, Var("x", 0))),
                   <<NaturalLit(1), NaturalLit(2)>>)),
          App1(App1(Lam("x", BNatural, Lam("y", BNatural, Var("x", 0))),
                    NaturalLit(1)), NaturalLit(2)),
          Lam("y", BNatural, App1(Lam("x", BNatural, Lam("y", BNatural,
                    BinOp("NaturalPlus", Var("x", 0), Var("y", 0)))), Var("y", 0))),
          Field(RecordLit([a |-> NatList(1), b |-> App1(SuccLam, NaturalLit(1))]), "b"),
          Projection(RecordLit([a |-> NaturalLit(1), b |-> BoolLit(TRUE)]), {"a"}),
          Projection(RecordLit([a |-> NaturalLit(1), b |-> BoolLit(TRUE)]), {}),
          Merge(RecordLit([A |-> SuccLam]),
                UnionLit("A", NaturalLit(1), [B |-> <<BBool>>]), <<>>),
          Embed(NaturalLit(1)),
          App(Builtin("IntegerShow"), <<IntegerLit(-1)>>),
          App(Builtin("IntegerShow"), <<IntegerLit(2)>>)}

\* the lists List/fold is applied to: [], [1, .., k], a list of redexes
FoldedLists ==
    {EmptyListLit(BNatural)} \cup {NatList(k) : k \in 1..MaxNat}
        \cup {NEListLit(<<App1(SuccLam, NaturalLit(1)), Var("y", 0),
                          BinOp("NaturalPlus", NaturalLit(1), NaturalLit(1))>>)}
\* <<t, cons, nil>>: the last three arguments of List/fold
ListFoldArgs ==
    {<<BNatural, Var("c", 0), Var("n", 0)>>,
     <<BNatural,
       Lam("x", BNatural, Lam("y", BNatural,
           BinOp("NaturalPlus", Var("x", 0), Var("y", 0)))),
       NaturalLit(0)>>,
     <<ListOf(BNatural),
       Lam("x", BNatural, Lam("l", ListOf(BNatural),
           BinOp("ListAppend", Var("l", 0), NEListLit(<<Var("x", 0)>>)))),
       EmptyListLit(BNatural)>>,
     <<BNatural, Lam("x", BNatural, Lam("y", BNatural, Var("x", 0))),
       App1(SuccLam, NaturalLit(0))>>}
ListFoldOf(l, a) == App(Builtin("ListFold"), <<BNatural, l>> \o a)
ListFoldInputs == {ListFoldOf(l, a) : l \in FoldedLists, a \in ListFoldArgs}

\* Natural → Natural, and the function type with one more argument
NatToNat == Pi("_", BNatural, BNatural)
NatToNatToNat == Pi("_", BNatural, NatToNat)
\* λ(x : Natural) → λ(y : Natural) → x
FirstOfTwo == Lam("x", BNatural, Lam("y", BNatural, Var("x", 0)))

\* builtins on too few arguments, on arguments of another shape than the
\* rule asks for, and on more arguments than the rule takes
BuiltinArgInputs ==
    {App(Builtin(b), <<a>>) :
        b \in {"NaturalIsZero", "NaturalToInteger", "NaturalShow"},
        a \in {Var("x", 0), BinOp("NaturalPlus", Var("x", 0), NaturalLit(1)),
               App1(SuccLam, NaturalLit(0))}}
    \cup {App(Builtin("IntegerShow"), <<Var("i", 0)>>),
          App(Builtin("ListLength"), <<BNatural>>),
          App(Builtin("ListLength"), <<BNatural, Var("l", 0)>>),
          App(Builtin("ListReverse"), <<BNatural, Var("l", 0)>>),
          App(Builtin("NaturalFold"), <<NaturalLit(2), BNatural, SuccLam>>),
          App(Builtin("NaturalFold"), <<Var("x", 0), BNatural, SuccLam, NaturalLit(0)>>),
          App(Builtin("ListFold"), <<BNatural, NatList(2), BNatural>>),
          App(Builtin("OptionalFold"),
              <<BNatural, Var("o", 0), BNatural, SuccLam, NaturalLit(0)>>),
          App(Builtin("NaturalFold"),
              <<NaturalLit(0), NatToNat, Lam("f", NatToNat, Var("f", 0)),
                SuccLam, NaturalLit(2)>>),
          App(Builtin("NaturalFold"),
              <<NaturalLit(1), NatToNatToNat, Lam("f", NatToNatToNat, Var("f", 0)),
                FirstOfTwo, NaturalLit(1), NaturalLit(2)>>),
          App(Builtin("ListHead"),
              <<NatToNatToNat, NEListLit(<<FirstOfTwo>>)>>)}

\* { a = 1, b = (λ(x : Natural) → x + 1) 1 }
RecordAB == RecordLit([a |-> NaturalLit(1), b |-> App1(SuccLam, NaturalLit(1))])
\* projections and selections on a record literal, on labels it has and on
\* labels it does not have, and on a variable
RecordAccessInputs ==
    {Projection(RecordAB, ls) : ls \in SUBSET {"a", "b", "index"}}
    \cup {Field(RecordAB, l) : l \in {"a", "b", "index"}}
    \cup {Projection(RecordLit(EmptyMap), {}), Projection(Var("r", 0), {}),
          Projection(Var("r", 0), {"a"}), Field(Var("r", 0), "a")}

\* the Natural literals around the largest Integer: isize::MAX, the next
\* one, and usize::MAX
LargeNaturals == {2 ^ (UsizeBits - 1) - 1, 2 ^ (UsizeBits - 1), 2 ^ UsizeBits - 1}
LargeNaturalInputs ==
    {App(Builtin("NaturalToInteger"), <<NaturalLit(n)>>) : n \in LargeNaturals}

NormInputs ==
    OmegaInputs \cup NatFoldInputs \cup BuildFoldInputs \cup FoldBuildInputs
        \cup WellTypedInputs \cup ListFoldInputs \cup BuiltinArgInputs
        \cup RecordAccessInputs \cup LargeNaturalInputs

(***************************************************************************)
(* The normalizer as a state machine: normalize is called on the input,    *)
(* and then on its own output.                                             *)
(***************************************************************************)
NormInit ==
    /\ nIn \in NormInputs
    /\ nOut = NoResult
    /\ nOut2 = NoResult
    /\ EqIdle /\ TcIdle
    /\ CtxIdle /\ ThunkIdle /\ ValueIdle /\ StaticIdle /\ MatchIdle

\* Typed::normalize on the input (skip_typecheck, then normalize)
Normalize ==
    /\ nOut = NoResult
    /\ nOut' = normalize(nIn)
    /\ UNCHANGED <<nIn, nOut2, eqVars, tcVars, cxVars, thVars, vfVars, stVars, mvVars>>

\* normalize on the expression a first call returned
NormalizeAgain ==
    /\ nOut \notin {NoResult, StackOverflow}
    /\ nOut2 = NoResult
    /\ nOut2' = normalize(nOut)
    /\ UNCHANGED <<nIn, nOut, eqVars, tcVars, cxVars, thVars, vfVars, stVars, mvVars>>

NormNext == Normalize \/ NormalizeAgain

SpecNorm == NormInit /\ [][NormNext]_vars

(***************************************************************************)
(* Properties of the normalizer (checked under SpecNorm).                  *)
(***************************************************************************)
Normalized == nOut # NoResult

\* C1: normalization is total: for every input expression, well-typed or not,
\* normalize returns an expression (a stuck sub-term is left in place); it
\* never recurses without end, e.g. on the self-application
\* (λ(x : T) → x x) (λ(x : T) → x x).
C1_NormalizeTotal == Normalized => nOut # StackOverflow

\* C2: normalization is idempotent: normalizing the output of normalize again
\* returns exactly the same expression.
C2_Idempotent == nOut2 # NoResult => nOut2 = nOut
\* a well-typed input that is not its own normal form, normalized twice
C2_Witness == nIn \in WellTypedInputs /\ nOut # nIn /\ nOut2 = nOut

\* C8: build-of-fold fusion: K/build applied to a function argument that is
\* K/fold of a value x normalizes to the normal form of x, without the
\* build's expansion; a build of a fold of another kind is not fused: it
\* normalizes to the normal form of the expansion.
C8_BuildFoldFusion ==
    \A K1 \in Kinds, K2 \in Kinds, a \in {BNatural, Var("a", 0)},
       b \in {BNatural, BBool}, x \in FoldedValues :
        (nIn = BuildOf(K1, a, FoldOf(K2, b, x)) /\ Normalized) =>
            IF K1 = K2
            THEN nOut = normalize(x)
            ELSE /\ nOut = normalize(BuildExpansion(K1 \o "Build", a,
                                                    FoldOf(K2, b, normalize(x))))
                 /\ nOut # normalize(x)
\* a List/build of a List/fold of a redex, fused to the redex's normal form
C8_Witness ==
    /\ nIn = BuildOf("List", BNatural,
                     FoldOf("List", BBool,
                            BinOp("ListAppend", NatList(1), NatList(2))))
    /\ nOut = NEListLit(<<NaturalLit(1), NaturalLit(1), NaturalLit(2)>>)

\* C9: fold-of-build law: for all a and g, K/fold a (K/build a g) normalizes
\* to the same expression as g, for K among List, Optional, Natural (also
\* when g is a stuck term such as a variable).
C9_FoldOfBuild ==
    \A K \in Kinds, g \in {Var("g", 0), ListGen, OptionalGen, NaturalGen} :
        (nIn = App(FoldOf(K, BNatural, BuildOf(K, BNatural, g)), <<>>)
            /\ Normalized) => nOut = normalize(g)

\* C10: Natural/fold n t succ zero normalizes to the normal form of succ
\* applied exactly n times to zero (zero itself when n = 0), and the step on
\* n > 0 rewrites it to succ (Natural/fold (n-1) t succ zero).
C10_NaturalFold ==
    \A n \in 0..MaxNat, a \in NatFoldArgs :
        (nIn = NaturalFoldOf(n, a) /\ Normalized) =>
            /\ nOut = normalize(Iterate(a[2], n, a[3]))
            /\ n > 0 => what_next(nIn) =
                    Continue(App(App1(a[2], NaturalFoldOf(n - 1, a)), <<>>))
            /\ n = 0 => nOut = a[3]
\* the largest literal folded with λ(x : Natural) → x + 1 from 0
C10_Witness ==
    /\ nIn = NaturalFoldOf(MaxNat, <<BNatural, SuccLam, NaturalLit(0)>>)
    /\ nOut = NaturalLit(MaxNat)

\* cons x1 (cons x2 (.. (cons xn nil))), written from the head
RECURSIVE ConsChain(_, _, _)
ConsChain(xs, cons, nil) ==
    IF xs = <<>> THEN nil
    ELSE App1(App1(cons, Head(xs)), ConsChain(Tail(xs), cons, nil))
\* the elements of a list literal, and the literal of the elements xs
ElementsOf(l) == IF l.tag = "NEListLit" THEN l.xs ELSE <<>>
ListLitOf(xs) == IF xs = <<>> THEN EmptyListLit(BNatural) ELSE NEListLit(xs)

\* C11: List/fold a [x1, .., xn] t cons nil normalizes to the normal form of
\* cons x1 (cons x2 (.. (cons xn nil))), the same as unfolding
\* cons x1 (List/fold a [x2, .., xn] t cons nil) from the head, and on the
\* empty list literal to the normal form of nil.
C11_ListFold ==
    \A l \in FoldedLists, a \in ListFoldArgs :
        (nIn = ListFoldOf(l, a) /\ Normalized) =>
            LET xs == ElementsOf(l)
            IN  /\ nOut = normalize(ConsChain(xs, a[2], a[3]))
                /\ xs # <<>> =>
                      nOut = normalize(App(a[2],
                                 <<Head(xs), ListFoldOf(ListLitOf(Tail(xs)), a)>>))
                /\ xs = <<>> => nOut = normalize(a[3])
\* [1, .., MaxNat] folded with stuck cons and nil: c 1 (c 2 (.. n))
C11_Witness ==
    /\ nIn = ListFoldOf(NatList(MaxNat), <<BNatural, Var("c", 0), Var("n", 0)>>)
    /\ nOut = FoldConsFrom(NatList(MaxNat).xs, 1, Var("c", 0), Var("n", 0))
    /\ nOut.args[1] = NaturalLit(1)

(***************************************************************************)
(* Type equality of dhall/src/typecheck.rs: match_vars and prop_equal.     *)
(* A comparison yields "true" or "false", or "panic" when an arithmetic    *)
(* overflow check fails (a build with overflow checks, "debug"); without   *)
(* the checks ("release") usize arithmetic wraps modulo 2^UsizeBits.       *)
(***************************************************************************)
Bool3(b) == IF b THEN "true" ELSE "false"

\* a && b on results, b evaluated only when a is "true"
AndThen(a, b) == IF a = "true" THEN b ELSE a

\* n - 1 on usize
UsizeDec(n) == (n - 1) % (2 ^ UsizeBits)

\* the loop of match_vars from the i-th entry of ctx on; ctx[1] is the first
\* entry pushed, the outermost binder
RECURSIVE match_vars_loop(_, _, _, _, _, _, _)
match_vars_loop(xL, nL, xR, nR, ctx, i, build) ==
    IF i > Len(ctx) THEN Bool3(xL = xR /\ nL = nR)
    ELSE LET xL2 == ctx[i][1]
             xR2 == ctx[i][2]
         IN  IF nL = 0 /\ nR = 0 /\ xL = xL2 /\ xR = xR2 THEN "true"
             ELSE IF build = "debug"
                        /\ ((xL = xL2 /\ nL = 0) \/ (xR = xR2 /\ nR = 0))
             THEN "panic"
             ELSE match_vars_loop(xL, IF xL = xL2 THEN UsizeDec(nL) ELSE nL,
                                  xR, IF xR = xR2 THEN UsizeDec(nR) ELSE nR,
                                  ctx, i + 1, build)

match_vars(vl, vr, ctx, build) ==
    match_vars_loop(vl.x, vl.n, vr.x, vr.n, ctx, 1, build)

\* the labels of the model in the order of BTreeMap<Label, _>
LabelOrder == <<"A", "B", "None", "Some", "a", "b", "index", "value">>
\* the keys of a map in iteration order
Keys(m) == SelectSeq(LabelOrder, LAMBDA k : k \in DOMAIN m)

\* prop_equal::go
RECURSIVE go(_, _, _, _)
\* xs.iter().zip(ys.iter()).all(go) from the i-th pair on
RECURSIVE go_all(_, _, _, _, _)
go_all(ctx, xs, ys, i, build) ==
    IF i > Len(xs) \/ i > Len(ys) THEN "true"
    ELSE AndThen(go(ctx, xs[i], ys[i], build), go_all(ctx, xs, ys, i + 1, build))
\* the zip over the entries of two maps, from the i-th entry on
RECURSIVE go_map(_, _, _, _, _, _, _)
go_map(ctx, kL, mL, kR, mR, i, build) ==
    IF i > Len(kL) \/ i > Len(kR) THEN "true"
    ELSE AndThen(Bool3(kL[i] = kR[i]),
         AndThen(go(ctx, mL[kL[i]], mR[kR[i]], build),
                 go_map(ctx, kL, mL, kR, mR, i + 1, build)))
go(ctx, el, er, build) ==
    CASE el.tag = "Const" /\ er.tag = "Const" -> Bool3(el.c = er.c)
      [] el.tag = "Builtin" /\ er.tag = "Builtin" -> Bool3(el.name = er.name)
      [] el.tag = "Var" /\ er.tag = "Var" ->
            match_vars(V(el.x, el.n), V(er.x, er.n), ctx, build)
      [] el.tag = "Pi" /\ er.tag = "Pi" ->
            AndThen(go(ctx, el.t, er.t, build),
                    go(Append(ctx, <<el.x, er.x>>), el.b, er.b, build))
      [] el.tag = "App" /\ er.tag = "App" ->
            AndThen(go(ctx, el.f, er.f, build),
            AndThen(Bool3(Len(el.args) = Len(er.args)),
                    go_all(ctx, el.args, er.args, 1, build)))
      [] el.tag = "RecordType" /\ er.tag = "RecordType" ->
            AndThen(Bool3(Cardinality(DOMAIN el.kvs) = Cardinality(DOMAIN er.kvs)),
                    go_map(ctx, Keys(el.kvs), el.kvs, Keys(er.kvs), er.kvs, 1, build))
      [] el.tag = "UnionType" /\ er.tag = "UnionType" ->
            AndThen(Bool3(Cardinality(DOMAIN el.kts) = Cardinality(DOMAIN er.kts)),
                    go_map(ctx, Keys(el.kts), [k \in DOMAIN el.kts |-> el.kts[k][1]],
                           Keys(er.kts), [k \in DOMAIN er.kts |-> er.kts[k][1]],
                           1, build))
      [] OTHER -> "false"

\* TypeInternal::SuperType, the type of Sort
SuperType == [tag |-> "SuperType"]

\* prop_equal: equality up to alpha-equivalence
prop_equal(eL0, eR0, build) ==
    IF eL0 = SuperType /\ eR0 = SuperType THEN "true"
    ELSE IF eL0 # SuperType /\ eR0 # SuperType THEN go(<<>>, eL0, eR0, build)
    ELSE "false"

(***************************************************************************)
(* The inputs of prop_equal: types in normal form, as mktype returns them. *)
(***************************************************************************)
\* ∀(l1 : Type) → .. → ∀(lk : Type) → v, for the labels l1..lk of ls
RECURSIVE PiChain(_, _)
PiChain(ls, v) ==
    IF ls = <<>> THEN Var(v.x, v.n)
    ELSE Pi(Head(ls), Const("Type"), PiChain(Tail(ls), v))

PiChains ==
    {PiChain(<<"a", "a">>, V("a", n)) : n \in 0..2}
    \cup {PiChain(<<"x", "y">>, v) : v \in {V("x", 0), V("y", 0), V("a", 0)}}
    \cup {PiChain(<<"x", "x">>, V("x", n)) : n \in 0..1}

\* F (λ(a : Type) → a), the type of x in
\* λ(F : (Type → Type) → Type) → λ(x : F (λ(a : Type) → a)) → x
AppliedToLam == App1(Var("F", 0), Lam("a", Const("Type"), Var("a", 0)))

EqInputs ==
    PiChains
    \cup {BNatural, Const("Type"), ListOf(BNatural), Pi("_", BNatural, BBool),
          Var("t", 0), AppliedToLam, SuperType,
          RecordType([a |-> BNatural, b |-> BBool]), RecordType([a |-> BNatural]),
          UnionType([A |-> <<BNatural>>, B |-> <<BBool>>])}

(***************************************************************************)
(* Type equality as a state machine: three types are drawn and compared.   *)
(***************************************************************************)
EqInit ==
    /\ eqL \in EqInputs /\ eqR \in EqInputs /\ eqM \in EqInputs
    /\ eqRes = NoResult
    /\ eqBuild \in {"debug", "release"}
    /\ NormIdle /\ TcIdle
    /\ CtxIdle /\ ThunkIdle /\ ValueIdle /\ StaticIdle /\ MatchIdle

\* the calls of prop_equal that ensure_equal makes on these types
PropEqual ==
    /\ eqRes = NoResult
    /\ eqRes' = [tag |-> "Compared",
                 ll |-> prop_equal(eqL, eqL, eqBuild),
                 lr |-> prop_equal(eqL, eqR, eqBuild),
                 rl |-> prop_equal(eqR, eqL, eqBuild),
                 rm |-> prop_equal(eqR, eqM, eqBuild),
                 lm |-> prop_equal(eqL, eqM, eqBuild)]
    /\ UNCHANGED <<eqL, eqR, eqM, eqBuild, nVars, tcVars, cxVars, thVars, vfVars,
                   stVars, mvVars>>

EqNext == PropEqual

SpecEq == EqInit /\ [][EqNext]_vars

(***************************************************************************)
(* Properties of type equality (checked under SpecEq).                     *)
(***************************************************************************)
Compared == eqRes # NoResult

\* C3: prop_equal is an equivalence relation on the types the checker can
\* produce: reflexive (whatever node kinds the type contains), symmetric and
\* transitive.
C3_Equivalence ==
    Compared =>
        /\ eqRes.ll = "true"
        /\ eqRes.lr = "true" => eqRes.rl = "true"
        /\ (eqRes.lr = "true" /\ eqRes.rm = "true") => eqRes.lm = "true"

\* where V(x, n) points under the binder labels ls (outermost first), read
\* from the innermost binder at position i outwards: the position of the
\* binder it is bound by, or 0 and the index that remains when it is free
RECURSIVE Resolve(_, _, _, _)
Resolve(x, n, ls, i) ==
    IF i = 0 THEN [pos |-> 0, rest |-> n]
    ELSE IF ls[i] = x
    THEN IF n = 0 THEN [pos |-> i, rest |-> 0] ELSE Resolve(x, n - 1, ls, i - 1)
    ELSE Resolve(x, n, ls, i - 1)

\* positional equality of two variables under corresponding binders
SameBinder(vl, lsL, vr, lsR) ==
    LET l == Resolve(vl.x, vl.n, lsL, Len(lsL))
        r == Resolve(vr.x, vr.n, lsR, Len(lsR))
    IN  /\ l.pos = r.pos
        /\ l.pos = 0 => (vl.x = vr.x /\ l.rest = r.rest)

ChainLabels == {<<"a", "a">>, <<"x", "y">>, <<"x", "x">>}
ChainVars == {V("a", 0), V("a", 1), V("a", 2), V("x", 0), V("x", 1), V("y", 0)}

\* C4: type equality is alpha-equivalence decided positionally: two variables
\* are equal exactly when they point to the same pair of corresponding
\* binders, or are both free with the same label and the same remaining
\* index, for every binder nesting (shadowed labels with a non-zero index
\* included), and the index arithmetic stays within the non-negative range.
C4_Positional ==
    \A lsL \in ChainLabels, lsR \in ChainLabels, vl \in ChainVars, vr \in ChainVars :
        (Compared /\ eqL = PiChain(lsL, vl) /\ eqR = PiChain(lsR, vr)) =>
            eqRes.lr = Bool3(SameBinder(vl, lsL, vr, lsR))

(***************************************************************************)
(* The type checkers of dhall/src/phase/typecheck.rs ("phase") and         *)
(* dhall/src/semantics/phase/typecheck.rs ("semantics").                   *)
(* A Typed is either a universe constant or a value together with its      *)
(* type, itself a Typed.  Values are kept in normal form.  The value of a   *)
(* Pi carries, in the fields ka and kb, the universes of its domain and of  *)
(* its codomain, which TypeThunk::from_type keeps with them.                *)
(***************************************************************************)
Ok(r) == [ok |-> TRUE, r |-> r]
Err(m) == [ok |-> FALSE, err |-> m]
\* an error that carries a position, as InvalidListElement(i, ..) does
ErrAt(m, i) == [ok |-> FALSE, err |-> m, i |-> i]

\* F on the value v, computed once
With(v, F(_)) == CHOOSE out \in {F(x) : x \in {v}} : TRUE
\* the ? operator: F on the value of an Ok result, the error of an Err returned
Try(res, F(_)) == With(res, LAMBDA x : IF x.ok THEN F(x.r) ELSE x)

\* Typed::from_const
TypedConst(c) == [kind |-> "Const", c |-> c]
\* Typed::from_thunk_and_type
from_thunk_and_type(v, t) == [kind |-> "Typed", v |-> v, t |-> t]
to_value(td) == IF td.kind = "Const" THEN Const(td.c) ELSE td.v

\* type_of_const with Sort given the type Sort: the mutant of type_of_const
type_of_const_sort_typed(c) ==
    CASE c = "Type" -> Ok(TypedConst("Kind"))
      [] c = "Kind" -> Ok(TypedConst("Sort"))
      [] OTHER -> Ok(TypedConst("Sort"))

type_of_const(c) ==
    CASE c = "Type" -> Ok(TypedConst("Kind"))
      [] c = "Kind" -> Ok(TypedConst("Sort"))
      [] OTHER -> Err("Sort")

\* Typed::get_type: the type of a constant is looked up, any other is stored
get_type(td) == IF td.kind = "Const" THEN type_of_const(td.c) ELSE Ok(td.t)

\* Typed::as_const: Some(c) when the value is the constant c
as_const(td) == LET v == to_value(td) IN IF v.tag = "Const" THEN v.c ELSE "None"

\* function_check of the phase checker: Err(()) is "Err"
function_check(a, b) ==
    CASE b = "Type" -> "Type"
      [] a = "Kind" /\ b = "Kind" -> "Kind"
      [] a = "Sort" /\ b = "Sort" -> "Sort"
      [] a = "Sort" /\ b = "Kind" -> "Sort"
      [] OTHER -> "Err"

\* the derived order of Const: Type < Kind < Sort
ConstRank(c) == CASE c = "Type" -> 0 [] c = "Kind" -> 1 [] OTHER -> 2

\* function_check of the semantics checker: never an error
semantics_function_check(a, b) ==
    IF b = "Type" THEN "Type"
    ELSE IF ConstRank(a) >= ConstRank(b) THEN a ELSE b

\* Value::Pi(x, TypeThunk::from_type(tx), TypeThunk::from_type(te))
ValuePi(x, tx, te, ka, kb) ==
    [tag |-> "Pi", x |-> x, t |-> to_value(tx), b |-> to_value(te),
     ka |-> ka, kb |-> kb]

tck_pi_type(ver, x, tx, te) ==
    LET ttx == get_type(tx)
        tte == get_type(te)
        ka == as_const(ttx.r)
        kb == as_const(tte.r)
        k == IF ver = "phase" THEN function_check(ka, kb)
             ELSE semantics_function_check(ka, kb)
    IN  IF ~ttx.ok THEN ttx
        ELSE IF ka = "None" THEN Err("InvalidInputType")
        ELSE IF ~tte.ok THEN tte
        ELSE IF kb = "None" THEN Err("InvalidOutputType")
        ELSE IF k = "Err" THEN Err("NoDependentTypes")
        ELSE Ok(from_thunk_and_type(ValuePi(x, tx, te, ka, kb), TypedConst(k)))

\* the alpha-normal form of a value: every binder is named "_"
RECURSIVE alpha_normalize(_)
alpha_normalize(e) ==
    IF e.tag \in {"Lam", "Pi"}
    THEN LET b == IF e.x = "_" THEN e.b
                  ELSE subst_shift(V(e.x, 0), Var("_", 0),
                                   shift(1, V("_", 0), e.b))
         IN  [tag |-> e.tag, x |-> "_", t |-> alpha_normalize(e.t),
              b |-> alpha_normalize(b)]
    ELSE IF e.tag = "RecordType"
    THEN RecordType(MapSeq(e.kvs, alpha_normalize))
    ELSE IF e.tag = "UnionType"
    THEN UnionType(MapOptMap(e.kts, alpha_normalize))
    ELSE MapSub(e, alpha_normalize)

\* equality of values, as ensure_equal! decides it: up to the names of binders
ValueEq(a, b) == alpha_normalize(a) = alpha_normalize(b)

\* AlphaLabel::to_label_maybe_alpha
to_label_maybe_alpha(alpha, x) == IF alpha THEN "_" ELSE x

\* the body of a binder of label x with the variables the binder binds named
\* as AlphaVar::to_var(true) names them, the free variables `_` moved out of
\* the way
AlphaBody(x, b) ==
    IF x = "_" THEN b
    ELSE subst_shift(V(x, 0), Var("_", 0), shift(1, V("_", 0), b))

SomeLit(e) == [tag |-> "SomeLit", e |-> e]

\* e applied to args[i], args[i + 1], .. one after the other
RECURSIVE AppEach(_, _, _)
AppEach(e, args, i) ==
    IF i > Len(args) THEN e ELSE AppEach(App(e, <<args[i]>>), args, i + 1)

RECURSIVE normalize_to_expr_maybe_alpha(_, _)

\* the conversion with alpha naming the binders `_` and leaving the
\* variables they bind as they are: the mutant
normalize_to_expr_binders_only(alpha, v) ==
    CASE v.tag \in {"Lam", "Pi"} ->
             [tag |-> v.tag, x |-> to_label_maybe_alpha(alpha, v.x),
              t |-> normalize_to_expr_maybe_alpha(alpha, v.t),
              b |-> normalize_to_expr_maybe_alpha(alpha, v.b)]
      [] v.tag = "AppliedBuiltin" ->
             AppEach(Builtin(v.b),
                     MapSeq(v.args, LAMBDA a :
                         normalize_to_expr_maybe_alpha(alpha, a)), 1)
      [] v.tag = "EmptyOptionalLit" ->
             App(Builtin("OptionalNone"),
                 <<normalize_to_expr_maybe_alpha(alpha, v.t)>>)
      [] v.tag = "NEOptionalLit" ->
             SomeLit(normalize_to_expr_maybe_alpha(alpha, v.e))
      [] v.tag = "EmptyListLit" ->
             EmptyListLit(App(Builtin("List"),
                 <<normalize_to_expr_maybe_alpha(alpha, v.t)>>))
      [] OTHER ->
             MapSub(v, LAMBDA s : normalize_to_expr_maybe_alpha(alpha, s))

\* ValueF::normalize_to_expr_maybe_alpha
normalize_to_expr_maybe_alpha(alpha, v) ==
    CASE v.tag \in {"Lam", "Pi"} ->
             [tag |-> v.tag, x |-> to_label_maybe_alpha(alpha, v.x),
              t |-> normalize_to_expr_maybe_alpha(alpha, v.t),
              b |-> normalize_to_expr_maybe_alpha(alpha,
                        IF alpha THEN AlphaBody(v.x, v.b) ELSE v.b)]
      [] v.tag = "AppliedBuiltin" ->
             AppEach(Builtin(v.b),
                     MapSeq(v.args, LAMBDA a :
                         normalize_to_expr_maybe_alpha(alpha, a)), 1)
      [] v.tag = "EmptyOptionalLit" ->
             App(Builtin("OptionalNone"),
                 <<normalize_to_expr_maybe_alpha(alpha, v.t)>>)
      [] v.tag = "NEOptionalLit" ->
             SomeLit(normalize_to_expr_maybe_alpha(alpha, v.e))
      [] v.tag = "EmptyListLit" ->
             EmptyListLit(App(Builtin("List"),
                 <<normalize_to_expr_maybe_alpha(alpha, v.t)>>))
      [] OTHER ->
             MapSub(v, LAMBDA s : normalize_to_expr_maybe_alpha(alpha, s))

\* Typed::shift
RECURSIVE shift_typed(_, _, _)
shift_typed(delta, var, td) ==
    IF td.kind = "Const" THEN td
    ELSE from_thunk_and_type(shift(delta, var, td.v),
                             shift_typed(delta, var, td.t))

\* Typed::subst_shift: the value val replaces var, in the value and its type
RECURSIVE subst_shift_typed(_, _, _)
subst_shift_typed(var, val, td) ==
    IF td.kind = "Const" THEN td
    ELSE from_thunk_and_type(
             normalize(subst_shift(var, to_value(val), td.v)),
             subst_shift_typed(var, val, td.t))

(***************************************************************************)
(* TypecheckContext: a sequence of entries, the innermost last.  A Kept    *)
(* entry is a binder (insert_type), a Replaced entry a let (insert_value). *)
(***************************************************************************)
EmptyContext == <<>>

insert_type(ctx, x, t) ==
    Append(ctx, [x |-> x, kept |-> TRUE, v |-> Var(x, 0),
                 t |-> shift_typed(1, V(x, 0), t)])

insert_value(ctx, x, e) ==
    LET t == get_type(e)
    IN  IF ~t.ok THEN t
        ELSE Ok(Append(ctx, [x |-> x, kept |-> FALSE, v |-> to_value(e),
                             t |-> t.r]))

\* an entry moved under the binders the lookup has passed
RECURSIVE under_multiple_binders(_, _)
under_multiple_binders(td, passed) ==
    IF passed = <<>> THEN td
    ELSE under_multiple_binders(shift_typed(1, V(Head(passed), 0), td),
                                Tail(passed))

RECURSIVE lookup_from(_, _, _, _)

\* the lookup loop counting the bindings of every label: the mutant
lookup_from_any_label(ctx, i, var, passed) ==
    IF i = 0 THEN Err("UnboundVariable")
    ELSE LET it == ctx[i]
         IN  IF it.x = var.x /\ var.n = 0
             THEN Ok(under_multiple_binders(from_thunk_and_type(it.v, it.t),
                                            passed))
             ELSE lookup_from(ctx, i - 1,
                      IF var.n > 0 THEN V(var.x, var.n - 1) ELSE var,
                      IF it.kept THEN Append(passed, it.x) ELSE passed)

lookup_from(ctx, i, var, passed) ==
    IF i = 0 THEN Err("UnboundVariable")
    ELSE LET it == ctx[i]
         IN  IF it.x = var.x /\ var.n = 0
             THEN Ok(under_multiple_binders(from_thunk_and_type(it.v, it.t),
                                            passed))
             ELSE lookup_from(ctx, i - 1,
                      IF it.x = var.x THEN V(var.x, var.n - 1) ELSE var,
                      IF it.kept THEN Append(passed, it.x) ELSE passed)

lookup(ctx, var) == lookup_from(ctx, Len(ctx), var, <<>>)

(***************************************************************************)
(* type_of_builtin: the types of the builtins, as expressions.             *)
(***************************************************************************)
Arrow(a, b) == Pi("_", a, b)
BT(name) == Builtin(name)
TypeC == Const("Type")

\* forall (r : Type) -> forall (c : step) -> forall (n : r) -> r
FoldType(r, c, n, step) ==
    Pi(r, TypeC, Pi(c, step, Pi(n, Var(r, 0), Var(r, 0))))

type_of_builtin(b) ==
    LET a == Var("a", 0)
        ListA == App(BT("List"), <<a>>)
        OptionalA == App(BT("Optional"), <<a>>)
        NatF == FoldType("natural", "succ", "zero",
                         Arrow(Var("natural", 0), Var("natural", 0)))
        ListF == FoldType("list", "cons", "nil",
                          Arrow(a, Arrow(Var("list", 0), Var("list", 0))))
        OptF == FoldType("optional", "just", "nothing",
                         Arrow(a, Var("optional", 0)))
    IN  CASE b \in {"Bool", "Natural", "Integer", "Double", "Text"} -> TypeC
          [] b \in {"List", "Optional"} -> Arrow(TypeC, TypeC)
          [] b = "NaturalFold" -> Arrow(BT("Natural"), NatF)
          [] b = "NaturalBuild" -> Arrow(NatF, BT("Natural"))
          [] b \in {"NaturalIsZero", "NaturalEven", "NaturalOdd"} ->
                Arrow(BT("Natural"), BT("Bool"))
          [] b = "NaturalToInteger" -> Arrow(BT("Natural"), BT("Integer"))
          [] b = "NaturalShow" -> Arrow(BT("Natural"), BT("Text"))
          [] b = "IntegerToDouble" -> Arrow(BT("Integer"), BT("Double"))
          [] b = "IntegerShow" -> Arrow(BT("Integer"), BT("Text"))
          [] b = "DoubleShow" -> Arrow(BT("Double"), BT("Text"))
          [] b = "TextShow" -> Arrow(BT("Text"), BT("Text"))
          [] b = "ListBuild" -> Pi("a", TypeC, Arrow(ListF, ListA))
          [] b = "ListFold" -> Pi("a", TypeC, Arrow(ListA, ListF))
          [] b = "ListLength" -> Pi("a", TypeC, Arrow(ListA, BT("Natural")))
          [] b \in {"ListHead", "ListLast"} ->
                Pi("a", TypeC, Arrow(ListA, OptionalA))
          [] b = "ListIndexed" ->
                Pi("a", TypeC, Arrow(ListA, App(BT("List"),
                    <<RecordType([k \in {"index", "value"} |->
                          IF k = "index" THEN BT("Natural") ELSE a])>>)))
          [] b = "ListReverse" -> Pi("a", TypeC, Arrow(ListA, ListA))
          [] b = "OptionalBuild" -> Pi("a", TypeC, Arrow(OptF, OptionalA))
          [] b = "OptionalFold" -> Pi("a", TypeC, Arrow(OptionalA, OptF))
          [] b = "OptionalNone" -> Pi("a", TypeC, OptionalA)

(***************************************************************************)
(* type_with and type_last_layer.  Ret is the intermediary return type.    *)
(***************************************************************************)
RetWhole(td) == [ret |-> "Whole", td |-> td]
RetTypeOnly(t) == [ret |-> "TypeOnly", t |-> t]

\* the Pi a function type holds, taken apart: (x, tx.to_type(), tb.to_type())
PiDomain(pi) == from_thunk_and_type(pi.t, TypedConst(pi.ka))
PiCodomain(pi) == from_thunk_and_type(pi.b, TypedConst(pi.kb))

\* the App arm returning the codomain as it stands: the mutant of the arm
type_last_layer_app_no_subst(f, a) ==
    LET tf == get_type(f)
        pi == to_value(tf.r)
        ta == get_type(a)
    IN  IF ~tf.ok THEN tf
        ELSE IF pi.tag # "Pi" THEN Err("NotAFunction")
        ELSE IF ~ta.ok THEN ta
        ELSE IF ~ValueEq(to_value(ta.r), to_value(PiDomain(pi)))
        THEN Err("TypeMismatch")
        ELSE Ok(RetTypeOnly(PiCodomain(pi)))

\* the App arm of type_last_layer
type_last_layer_app(f, a) ==
    LET tf == get_type(f)
        pi == to_value(tf.r)
        ta == get_type(a)
    IN  IF ~tf.ok THEN tf
        ELSE IF pi.tag # "Pi" THEN Err("NotAFunction")
        ELSE IF ~ta.ok THEN ta
        ELSE IF ~ValueEq(to_value(ta.r), to_value(PiDomain(pi)))
        THEN Err("TypeMismatch")
        ELSE Ok(RetTypeOnly(subst_shift_typed(V(pi.x, 0), a, PiCodomain(pi))))

\* the Annot arm of type_last_layer
type_last_layer_annot(x, t) ==
    LET tx == get_type(x)
    IN  IF ~tx.ok THEN tx
        ELSE IF ~ValueEq(to_value(t), to_value(tx.r)) THEN Err("AnnotMismatch")
        ELSE Ok(RetTypeOnly(tx.r))

\* Value::RecordType(kts): the value of a record type whose field types are
\* the Typed kts, the universe of every field type kept in ks
ValueRecordType(kts) ==
    [tag |-> "RecordType", kvs |-> [l \in DOMAIN kts |-> to_value(kts[l])],
     ks |-> [l \in DOMAIN kts |-> as_const(get_type(kts[l]).r)]]

\* the loop of tck_record_type from the i-th field on, in the order of the
\* labels; k is the universe found so far, "None" when there is none yet.
\* kts gives the Result of every field.  A map holds a label once, so
\* RecordTypeDuplicateField does not arise.
RECURSIVE tck_record_type_loop(_, _, _, _)
tck_record_type_loop(ver, kts, i, k) ==
    IF i > Len(Keys(kts)) THEN Ok(IF k = "None" THEN "Type" ELSE k)
    ELSE Try(kts[Keys(kts)[i]], LAMBDA t :
         Try(get_type(t), LAMBDA tt :
         With(as_const(tt), LAMBDA k2 :
             IF k2 = "None" THEN Err("InvalidFieldType")
             ELSE IF ver = "phase"
             THEN IF k = "None" \/ k = k2
                  THEN tck_record_type_loop(ver, kts, i + 1, k2)
                  ELSE Err("InvalidFieldType")
             ELSE tck_record_type_loop(ver, kts, i + 1,
                      IF ConstRank(k2) >= ConstRank(k) THEN k2 ELSE k))))

\* tck_record_type: the phase checker starts without a universe and wants
\* the same one of every field, the semantics checker starts from Type and
\* takes the maximum
tck_record_type(ver, kts) ==
    Try(tck_record_type_loop(ver, kts, 1,
                             IF ver = "phase" THEN "None" ELSE "Type"), LAMBDA k :
        Ok(from_thunk_and_type(
               ValueRecordType([l \in DOMAIN kts |-> kts[l].r]), TypedConst(k))))

\* the alternatives of a union type in the order of the labels, each an
\* entry (x, t) with t the optional Typed of its payload
UnionEntries(kts) == [i \in 1..Len(Keys(kts)) |-> [x |-> Keys(kts)[i], t |-> kts[Keys(kts)[i]]]]

\* Value::UnionType(new_kts) of the entries es, the universe of every payload
\* type kept in ks ("None" for an alternative without payload)
ValueUnionType(es) ==
    LET entry(l) == es[CHOOSE i \in DOMAIN es : es[i].x = l]
        labels == {es[i].x : i \in DOMAIN es}
    IN  [tag |-> "UnionType",
         kts |-> [l \in labels |-> MapSeq(entry(l).t, to_value)],
         ks |-> [l \in labels |->
                    IF entry(l).t = <<>> THEN "None"
                    ELSE as_const(get_type(entry(l).t[1]).r)]]

RECURSIVE tck_union_type_loop(_, _, _, _)

\* the loop of tck_union_type with the guard k1 == k2 left out: the mutant
tck_union_type_loop_any(es, i, k, seen) ==
    IF i > Len(es) THEN Ok(IF k = "None" THEN "Type" ELSE k)
    ELSE Try(IF es[i].t = <<>> THEN Ok(k)
             ELSE Try(get_type(es[i].t[1]), LAMBDA tt :
                  With(as_const(tt), LAMBDA k2 :
                      IF k2 # "None" THEN Ok(IF k = "None" THEN k2 ELSE k)
                      ELSE Err("InvalidFieldType"))), LAMBDA k3 :
             IF es[i].x \in seen THEN Err("UnionTypeDuplicateField")
             ELSE tck_union_type_loop(es, i + 1, k3, seen \cup {es[i].x}))

\* the loop of tck_union_type from the i-th entry on: k is the universe found
\* so far ("None": none yet), seen the labels entered in new_kts
tck_union_type_loop(es, i, k, seen) ==
    IF i > Len(es) THEN Ok(IF k = "None" THEN "Type" ELSE k)
    ELSE Try(IF es[i].t = <<>> THEN Ok(k)
             ELSE Try(get_type(es[i].t[1]), LAMBDA tt :
                  With(as_const(tt), LAMBDA k2 :
                      IF k2 # "None" /\ (k = "None" \/ k = k2) THEN Ok(k2)
                      ELSE Err("InvalidFieldType"))), LAMBDA k3 :
             IF es[i].x \in seen THEN Err("UnionTypeDuplicateField")
             ELSE tck_union_type_loop(es, i + 1, k3, seen \cup {es[i].x}))

\* tck_union_type, the same in both checkers
tck_union_type(es) ==
    Try(tck_union_type_loop(es, 1, "None", {}), LAMBDA k :
        Ok(from_thunk_and_type(ValueUnionType(es), TypedConst(k))))

\* tck_list_type, and the last check of the NEListLit arm of the semantics
\* checker: t must have the type Type
tck_list_type(t) ==
    Try(get_type(t), LAMBDA tt :
        IF as_const(tt) # "Type" THEN Err("InvalidListType")
        ELSE Ok(from_thunk_and_type(ListOf(to_value(t)), TypedConst("Type"))))

RECURSIVE type_last_layer_nelistlit_loop(_, _, _)

\* the loop of the NEListLit arm comparing nothing: the mutant of the loop
type_last_layer_nelistlit_skip(ver, xs, i) ==
    IF i >= Len(xs) THEN Ok(i)
    ELSE type_last_layer_nelistlit_loop(ver, xs, i + 1)

\* the loop of the NEListLit arm from the element of position i on (the
\* first element has the position 0): the phase checker reports the
\* position, the message of the semantics checker is the bare name
type_last_layer_nelistlit_loop(ver, xs, i) ==
    IF i >= Len(xs) THEN Ok(i)
    ELSE Try(get_type(xs[1]), LAMBDA tx :
         Try(get_type(xs[i + 1]), LAMBDA ty :
             IF ~ValueEq(to_value(tx), to_value(ty))
             THEN IF ver = "phase" THEN ErrAt("InvalidListElement", i)
                  ELSE Err("InvalidListElement")
             ELSE type_last_layer_nelistlit_loop(ver, xs, i + 1)))

\* the NEListLit arm of type_last_layer
type_last_layer_nelistlit(ver, xs) ==
    Try(type_last_layer_nelistlit_loop(ver, xs, 1), LAMBDA n :
    Try(get_type(xs[1]), LAMBDA t :
    Try(tck_list_type(t), LAMBDA lt : Ok(RetTypeOnly(lt)))))

\* the Field arm of type_last_layer: a field of a record, or a constructor
\* of the union type r.  The phase checker names the binder of a constructor
\* "_" and leaves r as it is, the semantics checker names it x and puts r
\* under the binder.
type_last_layer_field(ver, r, x) ==
    Try(get_type(r), LAMBDA tr :
        LET rt == to_value(tr)
            u == to_value(r)
        IN  IF rt.tag = "RecordType"
            THEN IF x \in DOMAIN rt.kvs
                 THEN Ok(RetTypeOnly(
                          from_thunk_and_type(rt.kvs[x], TypedConst(rt.ks[x]))))
                 ELSE Err("MissingRecordField")
            ELSE IF u.tag # "UnionType" THEN Err("NotARecord")
            ELSE IF x \notin DOMAIN u.kts THEN Err("MissingUnionField")
            ELSE IF u.kts[x] = <<>> THEN Ok(RetTypeOnly(r))
            ELSE Try(tck_pi_type(ver, IF ver = "phase" THEN "_" ELSE x,
                         from_thunk_and_type(u.kts[x][1], TypedConst(u.ks[x])),
                         IF ver = "phase" THEN r ELSE shift_typed(1, V(x, 0), r)),
                     LAMBDA t : Ok(RetTypeOnly(t))))

\* the keys of a HashMap in the order its iterator hands them out, which
\* the hasher of the process decides
HashKeys(m) == IF tcHash = "descending" THEN Reverse(Keys(m)) ELSE Keys(m)

\* over_binder: Some of the type td taken from under the binder x, None
\* (the empty sequence) when the variable of the binder is free in it
over_binder(x, td) ==
    IF shift(1, V(x, 0), to_value(td)) # to_value(td) THEN <<>>
    ELSE <<shift_typed(-1, V(x, 0), td)>>

\* the alternatives of the type of the scrutinee of merge: those of a union
\* type; in the semantics checker None and Some : t for Optional t; the
\* empty sequence for any other type
merge_variants(ver, ut) ==
    IF ut.tag = "UnionType" THEN <<ut.kts>>
    ELSE IF /\ ver = "semantics" /\ ut.tag = "App"
            /\ ut.f = Builtin("Optional") /\ Len(ut.args) = 1
    THEN <<[l \in {"None", "Some"} |-> IF l = "None" THEN <<>> ELSE <<ut.args[1]>>]>>
    ELSE <<>>

\* the return type of the handler x of the record type handlers
handler_return_type(handlers, variants, x) ==
    LET handler == from_thunk_and_type(handlers.kvs[x], TypedConst(handlers.ks[x]))
        pi == handlers.kvs[x]
    IN  IF x \notin DOMAIN variants THEN Err("MergeHandlerMissingVariant")
        ELSE IF variants[x] = <<>> THEN Ok(handler)
        ELSE IF pi.tag # "Pi" THEN Err("NotAFunction")
        ELSE IF ~ValueEq(variants[x][1], pi.t) THEN Err("TypeMismatch")
        ELSE With(over_binder(pi.x, PiCodomain(pi)), LAMBDA tb :
                 IF tb = <<>>
                 THEN Err("MergeHandlerReturnTypeMustNotBeDependent")
                 ELSE Ok(tb[1]))

RECURSIVE merge_handlers_loop(_, _, _, _)

\* the loop over the handlers without the comparison of the return types:
\* the mutant of the loop
merge_handlers_loop_first(handlers, variants, keys, inferred_type) ==
    IF keys = <<>> THEN Ok(inferred_type)
    ELSE Try(handler_return_type(handlers, variants, Head(keys)), LAMBDA t :
             IF inferred_type = <<>>
             THEN merge_handlers_loop(handlers, variants, Tail(keys), <<t>>)
             ELSE merge_handlers_loop(handlers, variants, Tail(keys), inferred_type))

\* the loop over the handlers still to visit, keys: inferred_type is the
\* optional return type of the handlers visited
merge_handlers_loop(handlers, variants, keys, inferred_type) ==
    IF keys = <<>> THEN Ok(inferred_type)
    ELSE Try(handler_return_type(handlers, variants, Head(keys)), LAMBDA t :
             IF inferred_type = <<>>
             THEN merge_handlers_loop(handlers, variants, Tail(keys), <<t>>)
             ELSE IF ~ValueEq(to_value(inferred_type[1]), to_value(t))
             THEN Err("MergeHandlerTypeMismatch")
             ELSE merge_handlers_loop(handlers, variants, Tail(keys), inferred_type))

\* the end of the Merge arm deciding without the annotation: the mutant
type_last_layer_merge_end_no_annot(ver, inferred_type, type_annot) ==
    IF inferred_type # <<>> THEN Ok(RetTypeOnly(inferred_type[1]))
    ELSE IF type_annot # <<>> THEN Ok(RetTypeOnly(type_annot[1]))
    ELSE Err("MergeEmptyNeedsAnnotation")

\* the end of the Merge arm: the inferred type against the annotation
type_last_layer_merge_end(ver, inferred_type, type_annot) ==
    IF inferred_type # <<>> /\ type_annot # <<>>
    THEN IF ~ValueEq(to_value(inferred_type[1]), to_value(type_annot[1]))
         THEN Err("MergeAnnotMismatch")
         ELSE Ok(RetTypeOnly(IF ver = "phase" THEN type_annot[1]
                             ELSE inferred_type[1]))
    ELSE IF inferred_type # <<>> THEN Ok(RetTypeOnly(inferred_type[1]))
    ELSE IF type_annot # <<>> THEN Ok(RetTypeOnly(type_annot[1]))
    ELSE Err("MergeEmptyNeedsAnnotation")

\* the Merge arm of type_last_layer
type_last_layer_merge(ver, record, union, type_annot) ==
    Try(get_type(record), LAMBDA rt :
        IF to_value(rt).tag # "RecordType" THEN Err("Merge1ArgMustBeRecord")
        ELSE
    Try(get_type(union), LAMBDA ut :
    With(merge_variants(ver, to_value(ut)), LAMBDA variants :
        IF variants = <<>>
        THEN Err(IF ver = "phase" THEN "Merge2ArgMustBeUnion"
                 ELSE "Merge2ArgMustBeUnionOrOptional")
        ELSE
    Try(merge_handlers_loop(to_value(rt), variants[1],
                            HashKeys(to_value(rt).kvs), <<>>), LAMBDA inferred_type :
        IF DOMAIN variants[1] \ DOMAIN to_value(rt).kvs # {}
        THEN Err("MergeVariantMissingHandler")
        ELSE type_last_layer_merge_end(ver, inferred_type, type_annot)))))

\* the type of the field l of the record type value rt, as a Typed
FieldTyped(rt, l) == from_thunk_and_type(rt.kvs[l], TypedConst(rt.ks[l]))

\* merge_maps(l, r, f): the fields of both maps, f on a label of both
RightBiased(l, r) == [k \in DOMAIN l \cup DOMAIN r |-> IF k \in DOMAIN r THEN r[k] ELSE l[k]]

\* Type::make_record_type: the record type with the field types kvs, taken
\* as a type of Type
make_record_type(kvs) ==
    from_thunk_and_type([tag |-> "RecordType", kvs |-> kvs,
                         ks |-> [l \in DOMAIN kvs |-> "Type"]], TypedConst("Type"))

\* the RecursiveRecordMerge arm of the phase checker: it wants the values of
\* both types to be Value::RecordLit
phase_recursive_record_merge(l, r) ==
    Try(get_type(l), LAMBDA l_type :
    Try(get_type(r), LAMBDA r_type :
        IF to_value(l_type).tag = "RecordLit" /\ to_value(r_type).tag = "RecordLit"
        THEN Ok(RetTypeOnly(make_record_type(
                    RightBiased(to_value(l_type).kvs, to_value(r_type).kvs))))
        ELSE Err("BinOpTypeMismatch")))

\* the RecursiveRecordTypeMerge arm of the semantics checker on the Typed
\* l and r: the fields of both, merged again on a label of both
RECURSIVE recursive_record_type_merge(_, _)
recursive_record_type_merge(l, r) ==
    LET x == to_value(l)
        y == to_value(r)
    IN  IF x.tag # "RecordType" \/ y.tag # "RecordType"
        THEN Err("RecordTypeMergeRequiresRecordType")
        ELSE With([k \in DOMAIN x.kvs \cup DOMAIN y.kvs |->
                      IF k \in DOMAIN x.kvs /\ k \in DOMAIN y.kvs
                      THEN recursive_record_type_merge(FieldTyped(x, k), FieldTyped(y, k))
                      ELSE IF k \in DOMAIN x.kvs THEN Ok(FieldTyped(x, k))
                      ELSE Ok(FieldTyped(y, k))], LAMBDA kts :
                 IF \E k \in DOMAIN kts : ~kts[k].ok
                 THEN Err("RecordTypeMergeRequiresRecordType")
                 ELSE tck_record_type("semantics", kts))

\* the RightBiasedRecordMerge arm of the semantics checker
right_biased_record_merge(l, r) ==
    Try(get_type(l), LAMBDA l_type :
    Try(get_type(r), LAMBDA r_type :
        LET x == to_value(l_type)
            y == to_value(r_type)
        IN  IF x.tag # "RecordType" \/ y.tag # "RecordType"
            THEN Err("MustCombineRecord")
            ELSE Try(tck_record_type("semantics",
                         [k \in DOMAIN x.kvs \cup DOMAIN y.kvs |->
                             IF k \in DOMAIN y.kvs THEN Ok(FieldTyped(y, k))
                             ELSE Ok(FieldTyped(x, k))]),
                     LAMBDA t : Ok(RetTypeOnly(t)))))

\* the ListAppend arm, the same in both checkers
type_last_layer_list_append(l, r) ==
    Try(get_type(l), LAMBDA tl :
        IF ~(\/ to_value(tl) = Builtin("List")
             \/ to_value(tl).tag = "App" /\ to_value(tl).f = Builtin("List"))
        THEN Err("BinOpTypeMismatch")
        ELSE Try(get_type(r), LAMBDA tr :
                 IF ~ValueEq(to_value(tl), to_value(tr)) THEN Err("BinOpTypeMismatch")
                 ELSE Ok(RetTypeOnly(tl))))

\* the Equivalence arm of the semantics checker
type_last_layer_equivalence(l, r) ==
    Try(get_type(l), LAMBDA tl :
    Try(get_type(tl), LAMBDA ttl :
        IF as_const(ttl) # "Type" THEN Err("EquivalenceArgumentMustBeTerm")
        ELSE
    Try(get_type(r), LAMBDA tr :
    Try(get_type(tr), LAMBDA ttr :
        IF as_const(ttr) # "Type" THEN Err("EquivalenceArgumentMustBeTerm")
        ELSE IF ~ValueEq(to_value(tl), to_value(tr))
        THEN Err("EquivalenceTypeMismatch")
        ELSE Ok(RetWhole(from_thunk_and_type(
                    BinOp("Equivalence", to_value(l), to_value(r)),
                    TypedConst("Type"))))))))

\* the builtin type of the operands of an operator of the last BinOp arm,
\* "None" for an operator the arm does not list
BinOpBuiltin(o) ==
    CASE o \in {"BoolAnd", "BoolOr", "BoolEQ", "BoolNE"} -> "Bool"
      [] o \in {"NaturalPlus", "NaturalTimes"} -> "Natural"
      [] o = "TextAppend" -> "Text"
      [] OTHER -> "None"

RECURSIVE type_with(_, _, _)

\* mktype(&TypecheckContext::new(), SubExpr::from_builtin(b))
builtin_to_type(ver, b) == type_with(ver, EmptyContext, BT(b))

\* the last BinOp arm: the operands have the builtin type of the operator.
\* For an operator it does not list the phase checker answers Unimplemented;
\* in the semantics checker the earlier arms leave no such operator.
type_last_layer_binop_generic(ver, o, l, r) ==
    IF BinOpBuiltin(o) = "None" THEN Err("Unimplemented")
    ELSE
    Try(builtin_to_type(ver, BinOpBuiltin(o)), LAMBDA t :
    Try(get_type(l), LAMBDA tl :
        IF ~ValueEq(to_value(tl), to_value(t)) THEN Err("BinOpTypeMismatch")
        ELSE
    Try(get_type(r), LAMBDA tr :
        IF ~ValueEq(to_value(tr), to_value(t)) THEN Err("BinOpTypeMismatch")
        ELSE Ok(RetTypeOnly(t)))))

\* the BinOp arms of type_last_layer
type_last_layer_binop(ver, o, l, r) ==
    CASE o = "ListAppend" -> type_last_layer_list_append(l, r)
      [] o = "RecursiveRecordMerge" /\ ver = "phase" ->
            phase_recursive_record_merge(l, r)
      [] o = "RecursiveRecordMerge" /\ ver = "semantics" ->
            Try(get_type(l), LAMBDA tl :
            Try(get_type(r), LAMBDA tr :
            Try(recursive_record_type_merge(tl, tr), LAMBDA t :
                Ok(RetTypeOnly(t)))))
      [] o = "RecursiveRecordTypeMerge" /\ ver = "semantics" ->
            Try(recursive_record_type_merge(l, r), LAMBDA t : Ok(RetWhole(t)))
      [] o = "RightBiasedRecordMerge" /\ ver = "semantics" ->
            right_biased_record_merge(l, r)
      [] o = "Equivalence" /\ ver = "semantics" -> type_last_layer_equivalence(l, r)
      [] OTHER -> type_last_layer_binop_generic(ver, o, l, r)

\* type_last_layer: e is the node with a Typed in the place of every child
type_last_layer(ver, ctx, e) ==
    CASE e.tag = "App" -> type_last_layer_app(e.f, e.args[1])
      [] e.tag = "Annot" -> type_last_layer_annot(e.e, e.t)
      [] e.tag = "RecordType" ->
            Try(tck_record_type(ver, [l \in DOMAIN e.kvs |-> Ok(e.kvs[l])]),
                LAMBDA t : Ok(RetWhole(t)))
      [] e.tag = "RecordLit" ->
            Try(tck_record_type(ver, [l \in DOMAIN e.kvs |-> get_type(e.kvs[l])]),
                LAMBDA t : Ok(RetTypeOnly(t)))
      [] e.tag = "UnionType" ->
            Try(tck_union_type(UnionEntries(e.kts)), LAMBDA t : Ok(RetWhole(t)))
      [] e.tag = "UnionLit" ->
            Try(get_type(e.v), LAMBDA t :
            Try(tck_union_type(UnionEntries(e.kts) \o <<[x |-> e.k, t |-> <<t>>]>>),
                LAMBDA ut : Ok(RetTypeOnly(ut))))
      [] e.tag = "NEListLit" -> type_last_layer_nelistlit(ver, e.xs)
      [] e.tag = "BinOp" -> type_last_layer_binop(ver, e.op, e.l, e.r)
      [] e.tag = "Field" -> type_last_layer_field(ver, e.e, e.l)
      [] e.tag = "Merge" -> type_last_layer_merge(ver, e.h, e.u, e.ot)
      [] e.tag = "Const" -> Ok(RetWhole(TypedConst(e.c)))
      [] e.tag = "Builtin" ->
            With(type_of_builtin(e.name), LAMBDA ty :
                Try(type_with(ver, ctx, ty), LAMBDA t : Ok(RetTypeOnly(t))))
      [] e.tag \in {"BoolLit", "NaturalLit", "IntegerLit", "TextLit"} ->
            LET b == CASE e.tag = "BoolLit" -> "Bool"
                       [] e.tag = "NaturalLit" -> "Natural"
                       [] e.tag = "IntegerLit" -> "Integer"
                       [] OTHER -> "Text"
            IN  Try(builtin_to_type(ver, b), LAMBDA t : Ok(RetTypeOnly(t)))

\* the results of the payload types of the alternatives kts, in the order of
\* the labels
RECURSIVE OptResultsFrom(_, _)
OptResultsFrom(kts, i) ==
    IF i > Len(Keys(kts)) THEN <<>>
    ELSE kts[Keys(kts)[i]] \o OptResultsFrom(kts, i + 1)
OptResults(kts) == OptResultsFrom(kts, 1)

\* the children of a node without binder in the order in which traverse_ref
\* visits them: the fields of the variant in turn, a map in the order of its
\* labels
Children(e) ==
    CASE e.tag = "App" -> <<e.f>> \o e.args
      [] e.tag = "Annot" -> <<e.e, e.t>>
      [] e.tag \in {"RecordType", "RecordLit"} ->
            [i \in 1..Len(Keys(e.kvs)) |-> e.kvs[Keys(e.kvs)[i]]]
      [] e.tag = "UnionType" -> OptResults(e.kts)
      [] e.tag = "UnionLit" -> <<e.v>> \o OptResults(e.kts)
      [] e.tag = "NEListLit" -> e.xs
      [] e.tag = "BinOp" -> <<e.l, e.r>>
      [] e.tag = "Field" -> <<e.e>>
      [] e.tag = "Merge" -> <<e.h, e.u>> \o e.ot
      [] OTHER -> <<>>

\* traverse_ref with type_with, its last error returned: the mutant
Traverse_last_error(ver, ctx, e) ==
    With(MapSub(e, LAMBDA s : type_with(ver, ctx, s)), LAMBDA sub :
        LET errs == Children(sub)
            bad == {i \in DOMAIN errs : ~errs[i].ok}
        IN  IF bad # {} THEN errs[CHOOSE i \in bad : \A j \in bad : i >= j]
            ELSE Ok(MapSub(sub, LAMBDA r : r.r)))

\* traverse_ref with type_with: the children of a node typed in order; the
\* first error, or the node with the Typed results in the place of the
\* children
Traverse(ver, ctx, e) ==
    With(MapSub(e, LAMBDA s : type_with(ver, ctx, s)), LAMBDA sub :
        LET errs == Children(sub)
            bad == {i \in DOMAIN errs : ~errs[i].ok}
        IN  IF bad # {} THEN errs[CHOOSE i \in bad : \A j \in bad : i <= j]
            ELSE Ok(MapSub(sub, LAMBDA r : r.r)))

type_with(ver, ctx, e) ==
    CASE e.tag = "Lam" ->
            Try(type_with(ver, ctx, e.t), LAMBDA tx :
            With(insert_type(ctx, e.x, tx), LAMBDA ctx2 :
            Try(type_with(ver, ctx2, e.b), LAMBDA b :
            Try(get_type(b), LAMBDA tb :
            Try(tck_pi_type(ver, e.x, tx, tb), LAMBDA t :
                Ok(from_thunk_and_type(
                       Lam(e.x, to_value(tx), to_value(b)), t)))))))
      [] e.tag = "Pi" ->
            Try(type_with(ver, ctx, e.t), LAMBDA ta :
            With(insert_type(ctx, e.x, ta), LAMBDA ctx2 :
            Try(type_with(ver, ctx2, e.b), LAMBDA tb :
                tck_pi_type(ver, e.x, ta, tb))))
      [] e.tag = "Let" ->
            Try(type_with(ver, ctx,
                    IF e.ot # <<>> THEN Annot(e.v, e.ot[1]) ELSE e.v), LAMBDA v :
            Try(insert_value(ctx, e.x, v), LAMBDA ctx2 :
                type_with(ver, ctx2, e.b)))
      [] e.tag = "Var" -> lookup(ctx, V(e.x, e.n))
      [] OTHER ->
            Try(Traverse(ver, ctx, e), LAMBDA expr :
            Try(type_last_layer(ver, ctx, expr), LAMBDA ret :
                IF ret.ret = "Whole" THEN Ok(ret.td)
                ELSE Ok(from_thunk_and_type(
                         normalize(MapSub(expr, to_value)), ret.t))))

\* type_of: type_with in the empty context, and the result must have a type
type_of(e) ==
    Try(type_with("phase", EmptyContext, e), LAMBDA r :
        Try(get_type(r), LAMBDA t : Ok(r)))

\* typecheck of either checker
typecheck(ver, e) ==
    IF ver = "phase" THEN type_of(e) ELSE type_with(ver, EmptyContext, e)

(***************************************************************************)
(* Inputs of the type checker: closed and resolved expressions.            *)
(***************************************************************************)
\* a type of each universe: Natural : Type, Type : Kind, Kind : Sort
UniverseTypes == {BNatural, Const("Type"), Const("Kind")}
\* a term of each of these types: 1 : Natural, Natural : Type, Type : Kind
UniverseTerms == {NaturalLit(1), BNatural, Const("Type")}

PiInputs == {Pi("x", A, B) : A \in UniverseTypes, B \in UniverseTypes}
LamInputs == {Lam("x", A, b) : A \in UniverseTypes, b \in UniverseTerms}
SortInputs ==
    {Const("Type"), Const("Kind"), Const("Sort"),
     Pi("x", BNatural, Const("Sort")), Pi("x", Const("Sort"), BNatural),
     Lam("x", BNatural, Const("Kind")), Lam("x", BNatural, Const("Sort")),
     Let("x", <<>>, Const("Sort"), NaturalLit(1)),
     Let("x", <<>>, Const("Kind"), Var("x", 0))}

\* λ(a : Type) → λ(x : a) → x, with the binders named as given
Identity(a, x) == Lam(a, TypeC, Lam(x, Var(a, 0), Var(x, 0)))
\* λ(t : Type) → t
TypeIdentity == Lam("t", TypeC, Var("t", 0))
\* λ(f : ∀(a : Type) → ∀(x : a) → a) → f Natural 1
UseIdentity ==
    Lam("f", Pi("a", TypeC, Pi("x", Var("a", 0), Var("a", 0))),
        App1(App1(Var("f", 0), BNatural), NaturalLit(1)))
\* λ(a : Type) → λ(x : a) → λ(a : Type) → x, of type ∀a → ∀x → ∀a → a@1
Shadowing == Lam("a", TypeC, Lam("x", Var("a", 0), Lam("a", TypeC, Var("x", 0))))

AppFunctions ==
    {BT("NaturalEven"), BT("ListLength"), BT("List"), BT("OptionalNone"),
     NaturalLit(1), BoolLit(TRUE), BNatural, Const("Sort"), Var("f", 0),
     Identity("a", "x"), App1(Identity("a", "x"), BNatural),
     App1(Identity("a", "x"), BBool), UseIdentity, TypeIdentity,
     Lam("x", App1(TypeIdentity, BNatural), Var("x", 0)),
     App1(Shadowing, BNatural), App1(App1(Shadowing, BNatural), NaturalLit(2)),
     Let("T", <<>>, BNatural, Lam("x", Var("T", 0), Var("x", 0)))}
AppArguments ==
    {NaturalLit(2), BoolLit(FALSE), BNatural, BBool, Const("Sort"),
     Var("y", 0), Identity("b", "y"), BT("NaturalEven")}
AppInputs == {App1(f, a) : f \in AppFunctions, a \in AppArguments}

OtherInputs ==
    {Var("x", 0), Annot(NaturalLit(1), BNatural), Annot(NaturalLit(1), BBool),
     Let("x", <<BNatural>>, NaturalLit(1), App1(BT("NaturalEven"), Var("x", 0))),
     Let("x", <<BBool>>, NaturalLit(1), Var("x", 0)),
     Lam("xs", ListOf(BNatural), App1(App1(BT("ListHead"), BNatural), Var("xs", 0))),
     Lam("x", NaturalLit(1), Var("x", 0)), Pi("x", BNatural, NaturalLit(1)),
     BT("ListFold"), BT("NaturalBuild"), BT("OptionalBuild")}

\* field types: two of Type, one of Kind, one of Sort, one that is no type,
\* and Sort, which has no type
FieldTypes == {BNatural, BBool, TypeC, Const("Kind"), NaturalLit(1), Const("Sort")}
\* field values: their types are the first four of FieldTypes, in this order
\* (Bool : Type, Type : Kind, Kind : Sort), and Sort
FieldValues == {NaturalLit(1), BoolLit(TRUE), BBool, TypeC, Const("Kind"), Const("Sort")}
\* the maps with the labels a and b, with a alone, and the empty map
FieldMaps(S) ==
    {EmptyMap} \cup {[l \in {"a"} |-> A] : A \in S}
        \cup {[l \in {"a", "b"} |-> IF l = "a" THEN A ELSE B] : A \in S, B \in S}
RecordTypeInputs == {RecordType(m) : m \in FieldMaps(FieldTypes)}
RecordLitInputs == {RecordLit(m) : m \in FieldMaps(FieldValues)}
RecordInputs == RecordTypeInputs \cup RecordLitInputs

\* an alternative has no payload or a payload type of FieldTypes
Alternatives == {<<>>} \cup {<<A>> : A \in FieldTypes}
\* the union types with the alternatives A and B, with A alone, and the
\* empty union type
UnionTypeInputs ==
    {UnionType(EmptyMap)} \cup {UnionType([l \in {"A"} |-> p]) : p \in Alternatives}
        \cup {UnionType([l \in {"A", "B"} |-> IF l = "A" THEN p ELSE q]) :
                  p \in Alternatives, q \in Alternatives}
\* union literals < A = v | B : q >, < B = v | A : p > and < A = v | A : p >,
\* the last one naming its own alternative twice
UnionLitInputs ==
    {UnionLit("A", v, IF q = <<>> THEN EmptyMap ELSE [l \in {"B"} |-> q]) :
         v \in FieldValues, q \in {<<>>, <<BNatural>>, <<TypeC>>, <<NaturalLit(1)>>}}
        \cup {UnionLit("B", NaturalLit(1), [l \in {"A"} |-> p]) : p \in Alternatives}
        \cup {UnionLit("A", NaturalLit(1), [l \in {"A"} |-> <<BNatural>>])}
\* the expressions that only the syntax of the phase checker has
PhaseOnlyInputs == UnionLitInputs

\* handlers: Natural -> Bool, Natural -> Natural, Bool -> Bool,
\* Bool -> Natural, and two that are no functions
HandlerValues ==
    {Lam("n", BNatural, BoolLit(TRUE)), Lam("n", BNatural, Var("n", 0)),
     Lam("b", BBool, Var("b", 0)), Lam("b", BBool, NaturalLit(1)),
     BoolLit(TRUE), NaturalLit(1)}
\* the handler records with labels among x and y
HandlerRecords(x, y) ==
    {RecordLit(EmptyMap)}
        \cup {RecordLit([l \in {k} |-> h]) : k \in {x, y}, h \in HandlerValues}
        \cup {RecordLit([l \in {x, y} |-> IF l = x THEN h ELSE g]) :
                  h \in HandlerValues, g \in HandlerValues}
\* scrutinees of a union type: < A : Natural | B : Bool >.A 1,
\* < A | B : Bool >.A and < A : Natural >.A 1
UnionScrutinees ==
    {App1(Field(UnionType([l \in {"A", "B"} |->
                              IF l = "A" THEN <<BNatural>> ELSE <<BBool>>]), "A"),
          NaturalLit(1)),
     Field(UnionType([l \in {"A", "B"} |-> IF l = "A" THEN <<>> ELSE <<BBool>>]), "A"),
     App1(Field(UnionType([l \in {"A"} |-> <<BNatural>>]), "A"), NaturalLit(1))}
\* scrutinees of an Optional type: None Natural and None Bool
OptionalScrutinees == {App1(BT("OptionalNone"), BNatural), App1(BT("OptionalNone"), BBool)}
\* scrutinees of another type
OtherScrutinees == {NaturalLit(1), NatList(1), RecordLit(EmptyMap)}
MergeAnnotations == {<<>>, <<BBool>>, <<BNatural>>}
UnionMergeInputs ==
    {Merge(h, u, t) : h \in HandlerRecords("A", "B"), u \in UnionScrutinees,
                      t \in MergeAnnotations}
OptionalMergeInputs ==
    {Merge(h, u, <<>>) : h \in HandlerRecords("None", "Some"), u \in OptionalScrutinees}
OtherMergeInputs ==
    {Merge(h, u, <<>>) :
         h \in {RecordLit(EmptyMap), RecordLit([l \in {"A"} |-> BoolLit(TRUE)])},
         u \in OtherScrutinees}
        \cup {Merge(NaturalLit(1), u, <<>>) : u \in UnionScrutinees}
\* λ(x : <>) → merge h x, with and without annotation
EmptyMergeInputs ==
    {Lam("x", UnionType(EmptyMap), Merge(h, Var("x", 0), t)) :
         h \in {RecordLit(EmptyMap), RecordLit([l \in {"A"} |-> BoolLit(TRUE)])},
         t \in MergeAnnotations}
MergeInputs ==
    UnionMergeInputs \cup OptionalMergeInputs \cup OtherMergeInputs
        \cup EmptyMergeInputs

\* the record with the one field l = v
Record1(l, v) == RecordLit([k \in {l} |-> v])
\* operands of the record operators: {=}, { a = 1 }, { b = True },
\* { a = { a = 1 } }, { a = { b = True } }, { a = { a = 1 }, b = 2 },
\* { b = Natural }, and two that are no records
RecordOperands ==
    {RecordLit(EmptyMap), Record1("a", NaturalLit(1)), Record1("b", BoolLit(TRUE)),
     Record1("a", Record1("a", NaturalLit(1))),
     Record1("a", Record1("b", BoolLit(TRUE))),
     RecordLit([k \in {"a", "b"} |->
                   IF k = "a" THEN Record1("a", NaturalLit(1)) ELSE NaturalLit(2)]),
     Record1("b", BNatural), NaturalLit(1), BNatural}
RecursiveMergeInputs ==
    {BinOp("RecursiveRecordMerge", l, r) : l \in RecordOperands, r \in RecordOperands}
\* the other operators on records, and on record types
RecordOpInputs ==
    {BinOp(o, l, r) : o \in {"RightBiasedRecordMerge", "Equivalence"},
                      l \in RecordOperands, r \in RecordOperands}
        \cup {BinOp("RecursiveRecordTypeMerge", l, r) :
                  l \in {RecordType(EmptyMap), RecordType([k \in {"a"} |-> BNatural]),
                         RecordType([k \in {"a"} |-> RecordType([j \in {"a"} |-> BNatural])]),
                         BNatural},
                  r \in {RecordType([k \in {"b"} |-> BBool]),
                         RecordType([k \in {"a"} |-> RecordType([j \in {"b"} |-> TypeC])]),
                         NaturalLit(1)}}
\* λ(x : { a = 1 }) → x ∧ x and ∀(x : { a = 1 }) → x ∧ x: the type of x is a
\* record literal
LitTypedMergeInputs ==
    {Lam("x", Record1("a", NaturalLit(1)),
         BinOp("RecursiveRecordMerge", Var("x", 0), Var("x", 0))),
     Lam("x", BT("List"), BinOp("ListAppend", Var("x", 0), Var("x", 0)))}
\* the operators on Bool, Natural, Text and List
SimpleOperands == {NaturalLit(1), BoolLit(TRUE), TextLit("a"), NatList(1), Const("Sort")}
SimpleOpInputs ==
    {BinOp(o, l, r) :
         o \in {"BoolAnd", "BoolOr", "BoolEQ", "BoolNE", "NaturalPlus",
                "NaturalTimes", "TextAppend", "ListAppend"},
         l \in SimpleOperands, r \in SimpleOperands}
BinOpInputs ==
    RecursiveMergeInputs \cup RecordOpInputs \cup LitTypedMergeInputs
        \cup SimpleOpInputs

\* elements of list literals: two of Natural, one of Bool, one of Type and
\* one of Kind
ListElements == {NaturalLit(1), NaturalLit(2), BoolLit(TRUE), BNatural, TypeC}
\* the list literals of one to MaxNat elements
ListLitInputs ==
    UNION {{NEListLit(xs) : xs \in [1..n -> ListElements]} : n \in 1..MaxNat}

\* sub-expressions: three that fail, with UnboundVariable, NotAFunction and
\* InvalidListElement, and two that type-check
Parts ==
    {Var("y", 0), App1(NaturalLit(1), NaturalLit(1)),
     NEListLit(<<NaturalLit(1), BoolLit(TRUE)>>), NaturalLit(1), BBool}
\* a node of every kind over these sub-expressions
ErrorInputs ==
    UNION {{BinOp("NaturalPlus", a, b), App1(a, b), Annot(a, b), NEListLit(<<a, b>>),
            RecordLit([k \in {"a", "b"} |-> IF k = "a" THEN a ELSE b]),
            Lam("x", a, b), Pi("x", a, b), Let("x", <<>>, a, b), Field(a, "a"),
            BinOp("NaturalPlus", BinOp("NaturalPlus", a, b), b)} :
               a \in Parts, b \in Parts}
        \cup {Let("x", <<a>>, b, c) : a \in Parts, b \in Parts, c \in Parts}
        \cup {Merge(a, b, <<c>>) : a \in Parts, b \in Parts, c \in Parts}

TcInputs ==
    PiInputs \cup LamInputs \cup SortInputs \cup AppInputs \cup OtherInputs
        \cup RecordInputs \cup UnionTypeInputs \cup UnionLitInputs
        \cup MergeInputs \cup BinOpInputs \cup ListLitInputs \cup ErrorInputs

TcInit ==
    /\ tcVer \in {"phase", "semantics"}
    /\ tcHash \in {"ascending", "descending"}
    /\ tcIn \in IF tcVer = "phase" THEN TcInputs ELSE TcInputs \ PhaseOnlyInputs
    /\ tcRes = NoResult
    /\ NormIdle /\ EqIdle
    /\ CtxIdle /\ ThunkIdle /\ ValueIdle /\ StaticIdle /\ MatchIdle

\* Resolved::typecheck, and the type of the result as get_type gives it
Typecheck ==
    /\ tcRes = NoResult
    /\ \E out \in {typecheck(tcVer, tcIn)} :
           tcRes' = [out |-> out,
                     ty |-> IF out.ok THEN get_type(out.r) ELSE out]
    /\ UNCHANGED <<tcVer, tcHash, tcIn, nVars, eqVars, cxVars, thVars, vfVars,
                   stVars, mvVars>>

TcNext == Typecheck

SpecTc == TcInit /\ [][TcNext]_vars

(***************************************************************************)
(* Claims on the type checkers.                                            *)
(***************************************************************************)
Typechecked == tcRes # NoResult

\* the universe a type of UniverseTypes lives in
UniverseOfType(A) ==
    CASE A = BNatural -> "Type" [] A = Const("Type") -> "Kind" [] OTHER -> "Sort"
\* the universe the type of a term of UniverseTerms lives in
UniverseOfTerm(b) ==
    CASE b = NaturalLit(1) -> "Type" [] b = BNatural -> "Kind" [] OTHER -> "Sort"

\* the table of the Pi rule, "NoDependentTypes" for a rejected pair
PiRuleTable(a, b) ==
    CASE b = "Type" -> "Type"
      [] <<a, b>> = <<"Kind", "Kind">> -> "Kind"
      [] <<a, b>> \in {<<"Sort", "Sort">>, <<"Sort", "Kind">>} -> "Sort"
      [] OTHER -> "NoDependentTypes"

\* C5: for every pair of universes (a, b), a Pi with a domain in a and a
\* codomain in b has the universe the table gives as its type, and is rejected
\* with NoDependentTypes for (Type, Kind), (Type, Sort) and (Kind, Sort); a Lam
\* with such a domain and body type is accepted or rejected in the same way.
C5_FunctionCheck ==
    Typechecked =>
        /\ tcIn \in PiInputs =>
              LET k == PiRuleTable(UniverseOfType(tcIn.t), UniverseOfType(tcIn.b))
              IN  IF k = "NoDependentTypes"
                  THEN tcRes.out = Err("NoDependentTypes")
                  ELSE tcRes.out.ok /\ tcRes.ty = Ok(TypedConst(k))
        /\ tcIn \in LamInputs =>
              LET k == PiRuleTable(UniverseOfType(tcIn.t), UniverseOfTerm(tcIn.b))
              IN  IF k = "NoDependentTypes"
                  THEN tcRes.out = Err("NoDependentTypes")
                  ELSE /\ tcRes.out.ok
                       /\ to_value(tcRes.ty.r).tag = "Pi"
                       /\ get_type(tcRes.ty.r) = Ok(TypedConst(k))

\* C6: in the phase checker typecheck succeeds on Type with the type Kind and
\* on Kind with the type Sort, and fails on Sort with the error Sort, as
\* type_of demands a type of its result.
C6_Universes ==
    (Typechecked /\ tcVer = "phase") =>
        /\ tcIn = Const("Type") =>
              tcRes.out = Ok(TypedConst("Type")) /\ tcRes.ty = Ok(TypedConst("Kind"))
        /\ tcIn = Const("Kind") =>
              tcRes.out = Ok(TypedConst("Kind")) /\ tcRes.ty = Ok(TypedConst("Sort"))
        /\ tcIn = Const("Sort") => tcRes.out = Err("Sort")

C6_Witness ==
    /\ Typechecked /\ tcVer = "phase"
    /\ tcIn = Const("Sort") /\ tcRes.out = Err("Sort")

\* the function and the argument of the application tcIn, typed on their own
AppFun == type_with(tcVer, EmptyContext, tcIn.f)
AppArg == type_with(tcVer, EmptyContext, tcIn.args[1])
\* an application whose function and argument type-check, the function
\* having a type
AppChecked ==
    /\ Typechecked /\ tcIn \in AppInputs
    /\ AppFun.ok /\ AppArg.ok /\ get_type(AppFun.r).ok

\* C7: for an application f a whose parts type-check: when the type of f is
\* not a Pi the result is NotAFunction, whatever the argument is; otherwise,
\* when the type of a is not the domain up to the names of binders, the result
\* is TypeMismatch; otherwise the type is the codomain with a substituted for
\* the bound variable.
C7_AppRule ==
    AppChecked =>
        LET tf == to_value(get_type(AppFun.r).r)
            ta == get_type(AppArg.r)
        IN  IF tf.tag # "Pi" THEN tcRes.out = Err("NotAFunction")
            ELSE IF ~ta.ok THEN tcRes.out = ta
            ELSE IF alpha_normalize(to_value(ta.r)) # alpha_normalize(tf.t)
            THEN tcRes.out = Err("TypeMismatch")
            ELSE /\ tcRes.out.ok
                 /\ to_value(tcRes.ty.r) =
                        normalize(subst_shift(V(tf.x, 0), to_value(AppArg.r), tf.b))

\* List/length Natural : List Natural → Natural, the codomain List a → Natural
\* with Natural substituted for a
C7_Witness ==
    /\ AppChecked
    /\ tcIn = App1(BT("ListLength"), BNatural)
    /\ tcRes.out.ok
    /\ alpha_normalize(to_value(tcRes.ty.r)) = Arrow(ListOf(BNatural), BNatural)

\* the universe a field type lives in: "None" when it lives in none
UniverseOfFieldType(A) ==
    CASE A \in {BNatural, BBool} -> "Type"
      [] A = TypeC -> "Kind"
      [] A = Const("Kind") -> "Sort"
      [] OTHER -> "None"
\* the universe the type of a field value lives in
UniverseOfFieldValue(v) ==
    CASE v \in {NaturalLit(1), BoolLit(TRUE)} -> "Type"
      [] v = BBool -> "Kind"
      [] v = TypeC -> "Sort"
      [] OTHER -> "None"
\* the universes of the fields of the record tcIn
FieldUniverses ==
    {IF tcIn.tag = "RecordType" THEN UniverseOfFieldType(tcIn.kvs[l])
     ELSE UniverseOfFieldValue(tcIn.kvs[l]) : l \in DOMAIN tcIn.kvs}
\* the universe of the record type tcIn is, or of the type of the record
\* literal tcIn
RecordUniverse ==
    IF tcIn.tag = "RecordType" THEN tcRes.ty
    ELSE IF tcRes.ty.ok THEN get_type(tcRes.ty.r) ELSE tcRes.ty

\* C12: a record type, or a record literal, is accepted exactly when every
\* field type lives in a universe and all of them live in the same one; the
\* universe of the record type is then that one, Type for the empty record
\* type; with field types in two different universes it is rejected.
C12_RecordType ==
    (Typechecked /\ tcIn \in RecordInputs) =>
        IF "None" \notin FieldUniverses /\ Cardinality(FieldUniverses) <= 1
        THEN /\ tcRes.out.ok
             /\ tcIn.tag = "RecordLit" => to_value(tcRes.ty.r).tag = "RecordType"
             /\ \E k \in {"Type"} \cup FieldUniverses :
                    /\ FieldUniverses \in {{}, {k}}
                    /\ RecordUniverse = Ok(TypedConst(k))
        ELSE ~tcRes.out.ok

\* the universes of the payload types of the union type tcIn
PayloadUniverses ==
    {UniverseOfFieldType(tcIn.kts[l][1]) : l \in {a \in DOMAIN tcIn.kts : tcIn.kts[a] # <<>>}}

\* C13: a union type without alternatives, or whose alternatives all have no
\* payload, has the type Type; otherwise it is accepted exactly when the
\* payload types all live in one universe, which is then its type, the
\* alternatives without payload having no part in it; with payload types in
\* two universes, or one in none, it is rejected.
C13_UnionType ==
    (Typechecked /\ tcIn \in UnionTypeInputs) =>
        IF PayloadUniverses = {} THEN tcRes.ty = Ok(TypedConst("Type"))
        ELSE IF "None" \notin PayloadUniverses /\ Cardinality(PayloadUniverses) = 1
        THEN /\ tcRes.out.ok
             /\ to_value(tcRes.out.r).tag = "UnionType"
             /\ \E k \in PayloadUniverses : tcRes.ty = Ok(TypedConst(k))
        ELSE ~tcRes.out.ok /\ tcRes.out.err \in {"InvalidFieldType", "Sort"}

\* < A | B : Type > is accepted with the type Kind, the alternative A having
\* no part in it
C13_Witness ==
    /\ Typechecked
    /\ tcIn = UnionType([l \in {"A", "B"} |-> IF l = "A" THEN <<>> ELSE <<TypeC>>])
    /\ tcRes.out.ok /\ tcRes.ty = Ok(TypedConst("Kind"))

\* the type of the literal or variable returned by a handler of
\* HandlerValues with the domain dom
ReturnedType(b, dom) ==
    CASE b.tag = "BoolLit" -> BBool
      [] b.tag = "NaturalLit" -> BNatural
      [] OTHER -> dom
\* the type of a handler of HandlerValues
HandlerType(h) ==
    IF h.tag = "Lam" THEN Pi(h.x, h.t, ReturnedType(h.b, h.t))
    ELSE ReturnedType(h, h)
\* the return type of the handler h for an alternative alt: the codomain
\* for a payload, the type of the handler itself without one; empty when h
\* is no function from the payload type
ExpectedReturn(h, alt) ==
    IF alt = <<>> THEN <<HandlerType(h)>>
    ELSE IF h.tag = "Lam" /\ h.t = alt[1] THEN <<ReturnedType(h.b, h.t)>>
    ELSE <<>>
\* the alternatives of the type of a scrutinee of UnionScrutinees or
\* OptionalScrutinees
ScrutineeAlternatives(u) ==
    CASE u.tag = "Field" -> u.e.kts
      [] u.tag = "App" /\ u.f.tag = "Field" -> u.f.e.kts
      [] OTHER -> [l \in {"None", "Some"} |-> IF l = "None" THEN <<>> ELSE <<u.args[1]>>]
\* the return types of the handlers of the merge m whose labels are
\* alternatives
MergeReturns(m) ==
    {ExpectedReturn(m.h.kvs[l], ScrutineeAlternatives(m.u)[l]) :
         l \in DOMAIN m.h.kvs \cap DOMAIN ScrutineeAlternatives(m.u)}
\* the type of the result tcRes is t, up to the names of binders
ResultTypeIs(t) ==
    /\ tcRes.out.ok /\ tcRes.ty.ok
    /\ alpha_normalize(to_value(tcRes.ty.r)) = alpha_normalize(t)

HandlersFit(m) ==
    /\ DOMAIN m.h.kvs = DOMAIN ScrutineeAlternatives(m.u)
    /\ <<>> \notin MergeReturns(m)
    /\ Cardinality(MergeReturns(m)) = 1

\* C15: λ(x : <>) → merge {=} x fails with MergeEmptyNeedsAnnotation, and
\* λ(x : <>) → merge {=} x : t succeeds with the type ∀(x : <>) → t; a merge
\* whose handlers give the type r and that is annotated with t has the type
\* t when r = t and fails with MergeAnnotMismatch otherwise.
C15_MergeAnnotation ==
    Typechecked =>
        /\ (tcIn \in EmptyMergeInputs /\ tcIn.b.h = RecordLit(EmptyMap)) =>
               IF tcIn.b.ot = <<>> THEN tcRes.out = Err("MergeEmptyNeedsAnnotation")
               ELSE ResultTypeIs(Pi("x", UnionType(EmptyMap), tcIn.b.ot[1]))
        /\ (tcIn \in UnionMergeInputs /\ tcIn.ot # <<>> /\ HandlersFit(tcIn)) =>
               IF MergeReturns(tcIn) = {tcIn.ot} THEN ResultTypeIs(tcIn.ot[1])
               ELSE tcRes.out = Err("MergeAnnotMismatch")

\* λ(x : <>) → merge {=} x : Natural has the type ∀(x : <>) → Natural
C15_Witness ==
    /\ Typechecked
    /\ tcIn = Lam("x", UnionType(EmptyMap),
                  Merge(RecordLit(EmptyMap), Var("x", 0), <<BNatural>>))
    /\ ResultTypeIs(Pi("x", UnionType(EmptyMap), BNatural))

\* C16: a merge on a scrutinee of the type Optional t with handlers
\* None : r and Some : t → r has the type r, and a merge of a handler record
\* on a scrutinee that is of no union and of no Optional type fails with the
\* error of the second argument.
C16_MergeOptional ==
    Typechecked =>
        /\ (tcIn \in OptionalMergeInputs /\ HandlersFit(tcIn)) =>
               \E r \in MergeReturns(tcIn) : ResultTypeIs(r[1])
        /\ (tcIn \in OtherMergeInputs /\ tcIn.h.tag = "RecordLit") =>
               /\ ~tcRes.out.ok
               /\ tcRes.out.err \in {"Merge2ArgMustBeUnion",
                                      "Merge2ArgMustBeUnionOrOptional"}

\* the type of an operand of RecordOperands, or of a field of one
RECURSIVE OperandType(_)
OperandType(e) ==
    CASE e.tag = "RecordLit" -> RecordType([k \in DOMAIN e.kvs |-> OperandType(e.kvs[k])])
      [] e.tag = "NaturalLit" -> BNatural
      [] e.tag = "BoolLit" -> BBool
      [] OTHER -> TypeC
\* two types are record types whose common labels are record types that
\* can be merged in turn
RECURSIVE Mergeable(_, _)
Mergeable(tx, ty) ==
    /\ tx.tag = "RecordType" /\ ty.tag = "RecordType"
    /\ \A k \in DOMAIN tx.kvs \cap DOMAIN ty.kvs : Mergeable(tx.kvs[k], ty.kvs[k])
\* the record type with every field of both, merged on the common labels
RECURSIVE Merged(_, _)
Merged(tx, ty) ==
    RecordType([k \in DOMAIN tx.kvs \cup DOMAIN ty.kvs |->
                   IF k \in DOMAIN tx.kvs /\ k \in DOMAIN ty.kvs
                   THEN Merged(tx.kvs[k], ty.kvs[k])
                   ELSE IF k \in DOMAIN tx.kvs THEN tx.kvs[k] ELSE ty.kvs[k]])

\* C17: l ∧ r is accepted when the types of l and r are record types whose
\* common labels are record types on both sides, recursively, with the type
\* that has every field of both, merged on the common labels; it is rejected
\* when a type is no record type or a common label is no record type on
\* both sides.
C17_RecursiveRecordMerge ==
    (Typechecked /\ tcIn \in RecursiveMergeInputs) =>
        IF Mergeable(OperandType(tcIn.l), OperandType(tcIn.r))
        THEN ResultTypeIs(Merged(OperandType(tcIn.l), OperandType(tcIn.r)))
        ELSE ~tcRes.out.ok

\* C18: the type checker never answers Unimplemented
C18_NoUnimplemented ==
    Typechecked => tcRes.out # Err("Unimplemented")

\* the type of an element of ListElements
ElementType(e) ==
    CASE e.tag = "NaturalLit" -> BNatural
      [] e.tag = "BoolLit" -> BBool
      [] e = BNatural -> TypeC
      [] OTHER -> Const("Kind")
\* the positions, counted from 0, of the elements of xs whose type is not
\* the type of the first element
Differing(xs) == {i \in 1..(Len(xs) - 1) : ElementType(xs[i + 1]) # ElementType(xs[1])}

\* C19: a list literal with an element whose type is not that of the first
\* element is rejected with InvalidListElement, which in the phase checker
\* carries the position of the first such element; when all types agree and
\* the element type is not a type of Type it is rejected with
\* InvalidListType; otherwise its type is List of the element type.
C19_ListLiteral ==
    (Typechecked /\ tcIn \in ListLitInputs) =>
        LET xs == tcIn.xs
            t == ElementType(xs[1])
        IN  IF Differing(xs) # {}
            THEN \E i \in Differing(xs) :
                    /\ \A j \in Differing(xs) : i <= j
                    /\ tcRes.out = IF tcVer = "phase" THEN ErrAt("InvalidListElement", i)
                                   ELSE Err("InvalidListElement")
            ELSE IF t \notin {BNatural, BBool} THEN tcRes.out = Err("InvalidListType")
            ELSE ResultTypeIs(ListOf(t))

\* [1, 2, True] is rejected with InvalidListElement at the position 2
C19_Witness ==
    /\ Typechecked /\ tcVer = "phase"
    /\ tcIn = NEListLit(<<NaturalLit(1), NaturalLit(2), BoolLit(TRUE)>>)
    /\ tcRes.out = ErrAt("InvalidListElement", 2)

\* the results of type_with on the sub-expressions of the closed node e, in
\* the order in which the checker visits them: the domain and then, under
\* the binder, the body of a Lam or Pi; the value, its annotation and then,
\* with the value bound, the body of a Let; the children of any other node
ChildResults(ver, e) ==
    CASE e.tag \in {"Lam", "Pi"} ->
            With(type_with(ver, EmptyContext, e.t), LAMBDA a :
                IF ~a.ok THEN <<a>>
                ELSE <<a, type_with(ver, insert_type(EmptyContext, e.x, a.r), e.b)>>)
      [] e.tag = "Let" ->
            With(type_with(ver, EmptyContext,
                     IF e.ot # <<>> THEN Annot(e.v, e.ot[1]) ELSE e.v), LAMBDA v :
            With(IF v.ok THEN insert_value(EmptyContext, e.x, v.r) ELSE v, LAMBDA c :
                <<type_with(ver, EmptyContext, e.v)>>
                    \o [i \in DOMAIN e.ot |-> type_with(ver, EmptyContext, e.ot[i])]
                    \o (IF c.ok THEN <<type_with(ver, c.r, e.b)>> ELSE <<>>)))
      [] OTHER ->
            [i \in DOMAIN Children(e) |-> type_with(ver, EmptyContext, Children(e)[i])]

\* C20: when type_with fails on a sub-expression of a node, the node fails
\* with the error of the first sub-expression that fails, unchanged.
C20_ErrorPropagation ==
    Typechecked =>
        \A rs \in {ChildResults(tcVer, tcIn)} :
            \A i \in DOMAIN rs :
                (~rs[i].ok /\ \A j \in 1..(i - 1) : rs[j].ok) => tcRes.out = rs[i]

\* [1, True] + y fails with the error of [1, True], not with that of y
C20_Witness ==
    /\ Typechecked /\ tcVer = "phase"
    /\ tcIn = BinOp("NaturalPlus", NEListLit(<<NaturalLit(1), BoolLit(TRUE)>>),
                    Var("y", 0))
    /\ tcRes.out = ErrAt("InvalidListElement", 1)
    /\ type_with(tcVer, EmptyContext, tcIn.r) = Err("UnboundVariable")

(***************************************************************************)
(* Contexts as the type checker uses them: type_with keeps the context it  *)
(* was given and builds a new one for the body of a binder (insert_type    *)
(* under Lam and Pi, insert_value under Let), and looks variables up.      *)
(* cxHeap holds the contexts built so far; the first is the empty context. *)
(***************************************************************************)
CtxLabels == {"x", "y"}
CtxTypes == { from_thunk_and_type(BT("Bool"), TypedConst("Type")) }
CtxValues ==
    { from_thunk_and_type(NaturalLit(1),
                          from_thunk_and_type(BT("Natural"), TypedConst("Type"))) }
CtxVars == { V(x, k) : x \in CtxLabels, k \in 0..2 }

CtxInit ==
    /\ cxHeap = <<EmptyContext>>
    /\ cxRes = NoResult
    /\ NormIdle /\ EqIdle /\ TcIdle
    /\ ThunkIdle /\ ValueIdle /\ StaticIdle /\ MatchIdle

\* insert_type and insert_value clone the vector, push the entry and wrap the
\* result in a new context
InsertFresh(h, ctx2) == Append(cxHeap, ctx2)

\* the Lam and Pi arms of type_with: ctx.insert_type(x, tx)
InsertType ==
    /\ Len(cxHeap) < MaxContexts
    /\ \E h \in DOMAIN cxHeap, x \in CtxLabels, t \in CtxTypes :
           cxHeap' = InsertFresh(h, insert_type(cxHeap[h], x, t))
    /\ UNCHANGED <<cxRes, nVars, eqVars, tcVars, thVars, vfVars, stVars, mvVars>>

\* the Let arm of type_with: ctx.insert_value(x, v)?
InsertValue ==
    /\ Len(cxHeap) < MaxContexts
    /\ \E h \in DOMAIN cxHeap, x \in CtxLabels, e \in CtxValues :
           \E out \in {insert_value(cxHeap[h], x, e)} :
               /\ out.ok
               /\ cxHeap' = InsertFresh(h, out.r)
    /\ UNCHANGED <<cxRes, nVars, eqVars, tcVars, thVars, vfVars, stVars, mvVars>>

\* the Var arm of type_with: ctx.lookup(&var), None giving UnboundVariable
Lookup ==
    /\ \E h \in DOMAIN cxHeap, var \in CtxVars :
           cxRes' = [h |-> h, var |-> var, out |-> lookup(cxHeap[h], var)]
    /\ UNCHANGED <<cxHeap, nVars, eqVars, tcVars, thVars, vfVars, stVars, mvVars>>

CtxNext == InsertType \/ InsertValue \/ Lookup

SpecCtx == CtxInit /\ [][CtxNext]_vars

(***************************************************************************)
(* Claims on contexts.                                                     *)
(***************************************************************************)
\* the positions of the bindings of label x in ctx
BindingsOf(ctx, x) == { p \in DOMAIN ctx : ctx[p].x = x }
\* the position of the k-th innermost binding of x: k bindings of x are
\* further in.  The empty set when there are fewer than k + 1
KthInnermost(ctx, x, k) ==
    { p \in BindingsOf(ctx, x) :
        Cardinality({ q \in BindingsOf(ctx, x) : q > p }) = k }
\* the labels of the binders further in than position p, the innermost first
RECURSIVE BindersInside(_, _)
BindersInside(ctx, p) ==
    IF p >= Len(ctx) THEN <<>>
    ELSE BindersInside(ctx, p + 1)
         \o (IF ctx[p + 1].kept THEN <<ctx[p + 1].x>> ELSE <<>>)
\* the binding at position p as an expression under the binders further in
BindingAt(ctx, p) ==
    under_multiple_binders(from_thunk_and_type(ctx[p].v, ctx[p].t),
                           BindersInside(ctx, p))

LookupKth ==
    cxRes # NoResult =>
        LET ctx == cxHeap[cxRes.h]
            ps == KthInnermost(ctx, cxRes.var.x, cxRes.var.n)
        IN  IF ps = {} THEN cxRes.out = Err("UnboundVariable")
            ELSE \A p \in ps : cxRes.out = Ok(BindingAt(ctx, p))

\* every lookup on a context that exists gives the same after the step
InsertKeepsLookups ==
    cxHeap' # cxHeap =>
        /\ Len(cxHeap') = Len(cxHeap) + 1
        /\ \A h \in DOMAIN cxHeap : \A var \in CtxVars :
               lookup(cxHeap'[h], var) = lookup(cxHeap[h], var)

\* C21: lookup(V(x, k)) returns the k-th innermost binding of label x, the
\* bindings of other labels not counted, and nothing (UnboundVariable) when
\* there are fewer than k + 1 bindings of x; an insert gives a new context
\* and leaves every lookup on the contexts that existed unchanged.
C21_ContextLookup == [](LookupKth) /\ [][InsertKeepsLookups]_vars

\* a lookup of x@1 that passed a binding of another label and a binding of
\* x and found a binding that differs from the innermost one, in a context
\* built by three inserts
C21_Witness ==
    /\ cxRes # NoResult
    /\ cxRes.out.ok
    /\ cxRes.var.n = 1
    /\ LET ctx == cxHeap[cxRes.h]
       IN  /\ Len(ctx) = 3
           /\ \E p \in KthInnermost(ctx, cxRes.var.x, 1) :
                  /\ \E q \in DOMAIN ctx : q > p /\ ctx[q].x # cxRes.var.x
                  /\ \A q \in KthInnermost(ctx, cxRes.var.x, 0) :
                         BindingAt(ctx, p) # BindingAt(ctx, q)

(***************************************************************************)
(* Thunks.  A thunk is a shared cell holding an expression with its        *)
(* environment (Unevaluated), or a value in WHNF, or a value in NF.  The   *)
(* environment maps the variables of the expression to thunks; a value     *)
(* holds the thunks of its sub-values.  thStore is the heap of the cells,  *)
(* a thunk is the index of its cell.  evals counts how often the cell      *)
(* computed its value from its expression.                                 *)
(***************************************************************************)
Unevaluated(env, e) ==
    [form |-> "Unevaluated", env |-> env, e |-> e, val |-> NoResult, evals |-> 0]

\* the value found for the cell: the cell moves to WHNF
Evaluated(cell, v) ==
    [cell EXCEPT !.form = "WHNF", !.val = v, !.evals = @ + 1]

\* a value that could not be reduced further
PartialExpr(e) == [tag |-> "PartialExpr", e |-> e]

\* the thunk the environment holds for the variable expression s
EnvThunk(env, s) == env[s.x]

RECURSIVE normalize_whnf(_, _)

\* normalize_whnf computing the value whatever the state of the cell: the
\* mutant
normalize_whnf_again(st, h) ==
    LET cell == st[h]
        e == cell.e
    IN  CASE e.tag = "Var" /\ e.x \in DOMAIN cell.env ->
                 With(normalize_whnf(st, cell.env[e.x]), LAMBDA s1 :
                     [s1 EXCEPT ![h] = Evaluated(cell, s1[cell.env[e.x]].val)])
          [] e.tag = "BoolIf" ->
                 With(normalize_whnf(st, EnvThunk(cell.env, e.cond)), LAMBDA s1 :
                     With(s1[EnvThunk(cell.env, e.cond)].val, LAMBDA c :
                         IF c.tag = "BoolLit"
                         THEN With(EnvThunk(cell.env, IF c.val THEN e.yes ELSE e.no),
                                   LAMBDA t :
                                  With(normalize_whnf(s1, t), LAMBDA s2 :
                                      [s2 EXCEPT ![h] = Evaluated(cell, s2[t].val)]))
                         ELSE [s1 EXCEPT ![h] = Evaluated(cell,
                                  PartialExpr(MapSub(e,
                                      LAMBDA s : EnvThunk(cell.env, s))))]))
          [] OTHER ->
                 [st EXCEPT ![h] = Evaluated(cell,
                      MapSub(e, LAMBDA s : EnvThunk(cell.env, s)))]

\* normalize_whnf on the thunk h of the store st, giving the store after it:
\* an unevaluated cell computes its value from its expression, the variables
\* read from its environment; a cell in WHNF or NF is left as it is
normalize_whnf(st, h) ==
    IF st[h].form # "Unevaluated" THEN st
    ELSE
    LET cell == st[h]
        e == cell.e
    IN  CASE e.tag = "Var" /\ e.x \in DOMAIN cell.env ->
                 With(normalize_whnf(st, cell.env[e.x]), LAMBDA s1 :
                     [s1 EXCEPT ![h] = Evaluated(cell, s1[cell.env[e.x]].val)])
          [] e.tag = "BoolIf" ->
                 With(normalize_whnf(st, EnvThunk(cell.env, e.cond)), LAMBDA s1 :
                     With(s1[EnvThunk(cell.env, e.cond)].val, LAMBDA c :
                         IF c.tag = "BoolLit"
                         THEN With(EnvThunk(cell.env, IF c.val THEN e.yes ELSE e.no),
                                   LAMBDA t :
                                  With(normalize_whnf(s1, t), LAMBDA s2 :
                                      [s2 EXCEPT ![h] = Evaluated(cell, s2[t].val)]))
                         ELSE [s1 EXCEPT ![h] = Evaluated(cell,
                                  PartialExpr(MapSub(e,
                                      LAMBDA s : EnvThunk(cell.env, s))))]))
          [] OTHER ->
                 [st EXCEPT ![h] = Evaluated(cell,
                      MapSub(e, LAMBDA s : EnvThunk(cell.env, s)))]

\* ValueF::normalize_mut: the thunks it normalizes, in its order
normalize_mut(v) ==
    CASE v.tag \in {"Var", "Const", "BoolLit", "NaturalLit", "IntegerLit"} -> <<>>
      [] v.tag \in {"EmptyOptionalLit", "EmptyListLit"} -> <<v.t>>
      [] v.tag = "NEOptionalLit" -> <<v.e>>
      [] v.tag \in {"Lam", "Pi"} -> <<v.t, v.b>>
      [] v.tag = "NEListLit" -> v.xs
      [] v.tag \in {"RecordLit", "RecordType"} ->
             [i \in DOMAIN Keys(v.kvs) |-> v.kvs[Keys(v.kvs)[i]]]
      [] v.tag = "PartialExpr" /\ v.e.tag = "BoolIf" ->
             <<v.e.cond, v.e.yes, v.e.no>>

RECURSIVE normalize_nf(_, _)
\* normalize_nf on the thunks hs[i], hs[i + 1], ..
RECURSIVE normalize_nf_all(_, _, _)
normalize_nf_all(st, hs, i) ==
    IF i > Len(hs) THEN st
    ELSE With(normalize_nf(st, hs[i]), LAMBDA s1 : normalize_nf_all(s1, hs, i + 1))

\* normalize_nf on the thunk h: to WHNF first, then normalize_mut on the
\* value, then the cell is marked NF
normalize_nf(st, h) ==
    With(normalize_whnf(st, h), LAMBDA s1 :
        IF s1[h].form = "NF" THEN s1
        ELSE With(normalize_nf_all(s1, normalize_mut(s1[h].val), 1), LAMBDA s2 :
                 [s2 EXCEPT ![h].form = "NF"]))

NoEnv == [k \in {} |-> 0]
X0 == Var("x", 0)
Y0 == Var("y", 0)
\* a list that holds one thunk twice, a conditional that reduces to the list,
\* a record of both
SharedStore ==
    << Unevaluated(NoEnv, BoolLit(TRUE)),
       Unevaluated(NoEnv, NaturalLit(1)),
       Unevaluated([x |-> 2], NEListLit(<<X0, X0>>)),
       Unevaluated([c |-> 1, x |-> 3, y |-> 2], BoolIf(Var("c", 0), X0, Y0)),
       Unevaluated([x |-> 4, y |-> 2], RecordLit([a |-> X0, b |-> Y0])) >>
\* a free variable, a variable bound in the environment, a conditional that
\* is stuck on the free variable, an optional holding it
StuckStore ==
    << Unevaluated(NoEnv, Var("z", 0)),
       Unevaluated(NoEnv, NaturalLit(2)),
       Unevaluated([x |-> 2], X0),
       Unevaluated([c |-> 1, x |-> 2, y |-> 3], BoolIf(Var("c", 0), X0, Y0)),
       Unevaluated([x |-> 4], NEOptionalLit(X0)) >>
ThunkStores == {SharedStore, StuckStore}

ThunkInit ==
    /\ thStore \in ThunkStores
    /\ thRes = NoResult
    /\ NormIdle /\ EqIdle /\ TcIdle
    /\ CtxIdle /\ ValueIdle /\ StaticIdle /\ MatchIdle

\* forcing a thunk: the value in WHNF is returned
Force ==
    /\ \E h \in DOMAIN thStore :
           \E st \in {normalize_whnf(thStore, h)} :
               /\ thStore' = st
               /\ thRes' = [op |-> "force", h |-> h, out |-> st[h].val]
    /\ UNCHANGED <<nVars, eqVars, tcVars, cxVars, vfVars, stVars, mvVars>>

\* normalizing a thunk to NF
NormalizeNf ==
    /\ \E h \in DOMAIN thStore :
           \E st \in {normalize_nf(thStore, h)} :
               /\ thStore' = st
               /\ thRes' = [op |-> "normalize", h |-> h, out |-> st[h].val]
    /\ UNCHANGED <<nVars, eqVars, tcVars, cxVars, vfVars, stVars, mvVars>>

ThunkNext == Force \/ NormalizeNf

SpecThunk == ThunkInit /\ [][ThunkNext]_vars

(***************************************************************************)
(* Claims on thunks.                                                       *)
(***************************************************************************)
FormRank(f) == CASE f = "Unevaluated" -> 0 [] f = "WHNF" -> 1 [] f = "NF" -> 2

\* the value of the cell h as its expression and environment give it, the
\* thunks of the environment read in the store st
RECURSIVE ValueOf(_, _)
ValueOf(st, h) ==
    LET e == st[h].e
        env == st[h].env
    IN  CASE e.tag \in {"BoolLit", "NaturalLit"} -> e
          [] e.tag = "Var" ->
                 IF e.x \in DOMAIN env THEN ValueOf(st, env[e.x]) ELSE e
          [] e.tag = "NEListLit" ->
                 NEListLit([i \in DOMAIN e.xs |-> env[e.xs[i].x]])
          [] e.tag = "RecordLit" ->
                 RecordLit([k \in DOMAIN e.kvs |-> env[e.kvs[k].x]])
          [] e.tag = "NEOptionalLit" -> NEOptionalLit(env[e.e.x])
          [] e.tag = "BoolIf" ->
                 LET c == ValueOf(st, env[e.cond.x])
                 IN  IF c = BoolLit(TRUE) THEN ValueOf(st, env[e.yes.x])
                     ELSE IF c = BoolLit(FALSE) THEN ValueOf(st, env[e.no.x])
                     ELSE PartialExpr(BoolIf(env[e.cond.x], env[e.yes.x],
                                             env[e.no.x]))

ThunkStep ==
    \A h \in DOMAIN thStore :
        /\ h \in DOMAIN thStore'
        /\ FormRank(thStore'[h].form) >= FormRank(thStore[h].form)
        /\ thStore'[h].e = thStore[h].e /\ thStore'[h].env = thStore[h].env
        /\ IF thStore[h].form = "Unevaluated"
           THEN thStore'[h].form # "Unevaluated" =>
                    /\ thStore'[h].val = ValueOf(thStore', h)
                    /\ thStore'[h].evals = 1
           ELSE /\ thStore'[h].val = thStore[h].val
                /\ thStore'[h].evals = thStore[h].evals
        /\ (thRes'.h = h /\ thStore[h].form # "Unevaluated") =>
               thRes'.out = thStore[h].val

\* C22: the state of a thunk only moves forward along Unevaluated, WHNF, NF
\* under force and normalize on shared thunks; the first force computes the
\* value from the stored expression and environment, and every later force
\* returns the same cached value without computing it again.
C22_ThunkForward == [][ThunkStep]_vars

\* a thunk in NF is forced again, after a force that found it unevaluated
\* and a normalize: its value was computed once
C22_Witness ==
    /\ thRes # NoResult
    /\ thRes.op = "force"
    /\ thStore[thRes.h].form = "NF"
    /\ thStore[thRes.h].evals = 1
    /\ thStore[thRes.h].val.tag = "NEListLit"
    /\ thStore[thRes.h].e.tag = "BoolIf"
    /\ \E h \in DOMAIN thStore : thStore[h].form = "Unevaluated"

(***************************************************************************)
(* Operations on values (core/valuef.rs): shift, subst_shift and the       *)
(* conversion to an expression.  vfIn names the operation and holds its    *)
(* arguments.                                                              *)
(***************************************************************************)
\* Largest shift of the inputs.
MaxDelta == 2
\* Largest number of fields of a tuple or tuple struct of the inputs.
MaxFields == 3
\* Longest vector handed to match_vec.
MaxVec == 4
\* Most substitutions applied to one value in a row.
MaxSubst == 2

X1 == Var("x", 1)
X2 == Var("x", 2)
Y1 == Var("y", 1)
NaturalT == BT("Natural")
ShiftValues ==
    { X0, X1, X2, Y0, Y1,
      Lam("x", NaturalT, X0), Lam("x", NaturalT, X1), Lam("x", X0, X2),
      Lam("y", NaturalT, X0), Lam("y", X1, Y1),
      Pi("x", X0, X1), Pi("y", Y0, X0),
      Lam("x", NaturalT, Lam("x", X1, X2)),
      Lam("x", Y0, NEListLit(<<X2, X1>>)),
      Lam("x", NaturalT, Pi("y", X0, NEListLit(<<X1, Y0>>))),
      NEListLit(<<X0, Y0, X1>>),
      RecordLit([a |-> X1, b |-> Y0]),
      AppliedBuiltin("Natural/isZero", <<X0>>),
      NEOptionalLit(Lam("x", Y0, X0)) }
ShiftVars == { V("x", 0), V("x", 1), V("y", 0) }
ShiftInputs ==
    { [op |-> "shift", delta |-> d, var |-> v, e |-> e] :
        d \in (-1)..MaxDelta, v \in ShiftVars, e \in ShiftValues }

\* values that differ in the names of their binders only: the binders are
\* named a and b, a variable counts the binders of its own label
BinderNames == {"x", "y", "_"}
Over(a, b) == IF a = b THEN 1 ELSE 0
Template1(a, b) ==
    Lam(a, NaturalT,
        Lam(b, Var(a, 0), NEListLit(<<Var(a, Over(a, b)), Var(b, 0)>>)))
Template2(a, b) ==
    Pi(a, Const("Type"), Pi(b, Var(a, 0), Var(a, Over(a, b))))
Template3(a, b) ==
    Lam(a, Const("Type"),
        Lam(b, Var(a, 0),
            RecordLit([a |-> AppliedBuiltin("Natural/isZero",
                                 <<Var("x", Over(a, "x") + Over(b, "x"))>>),
                       b |-> EmptyListLit(Var(a, Over(a, b)))])))
Template4(a, b) ==
    NEOptionalLit(Lam(a, Const("Type"),
        Lam(b, EmptyOptionalLit(Var(a, 0)), Var("z", 0))))
ReifyPairs ==
    UNION { { <<Template1(a, b), Template1(c, d)>>,
              <<Template2(a, b), Template2(c, d)>>,
              <<Template3(a, b), Template3(c, d)>>,
              <<Template4(a, b), Template4(c, d)>> } :
            a \in BinderNames, b \in BinderNames,
            c \in BinderNames, d \in BinderNames }
ReifyInputs == { [op |-> "reify", l |-> p[1], r |-> p[2]] : p \in ReifyPairs }

(***************************************************************************)
(* Substitution into values.  A value in WHNF holds no builtin application *)
(* that a rule reduces and no text literal with a nested literal or two    *)
(* adjacent text runs; subst_shift restores both after substituting.       *)
(***************************************************************************)
\* the walk of squash_textlit: the text runs are gathered in crnt, a nested
\* literal is walked in place, any other interpolation closes the run
RECURSIVE squash_inner(_, _)
squash_inner(elts, acc) ==
    IF elts = <<>> THEN acc
    ELSE LET c == Head(elts)
             closed == IF acc.crnt = "" THEN acc.ret
                       ELSE Append(acc.ret, ITText(acc.crnt))
         IN  squash_inner(Tail(elts),
                 IF c.kind = "Text" THEN [acc EXCEPT !.crnt = @ \o c.s]
                 ELSE IF c.e.tag = "ValueTextLit" THEN squash_inner(c.e.elts, acc)
                 ELSE [crnt |-> "", ret |-> Append(closed, c)])

squash_textlit(elts) ==
    LET acc == squash_inner(elts, [crnt |-> "", ret |-> <<>>])
    IN  IF acc.crnt = "" THEN acc.ret ELSE Append(acc.ret, ITText(acc.crnt))

\* the value of a normalized expression: a builtin with its arguments, a
\* text literal as its segments, a node no rule reduces as a PartialExpr
RECURSIVE to_valuef(_)
to_valuef(e) ==
    CASE e.tag = "Builtin" -> AppliedBuiltin(e.name, <<>>)
      [] e.tag = "App" /\ e.f.tag = "Builtin" ->
            AppliedBuiltin(e.f.name, MapSeq(e.args, to_valuef))
      [] e.tag = "TextLit" ->
            ValueTextLit(IF e.s = "" THEN <<>> ELSE <<ITText(e.s)>>)
      [] e.tag \in {"App", "BoolIf", "BinOp", "Merge", "Field", "Projection"} ->
            PartialExpr(MapSub(e, to_valuef))
      [] e.tag \in {"AppliedBuiltin", "PartialExpr", "ValueTextLit"} -> e
      [] OTHER -> MapSub(e, to_valuef)

RECURSIVE apply_builtin_valuef(_, _)
RECURSIVE normalize_one_layer(_)
RECURSIVE subst_shift_arms(_, _)
RECURSIVE subst_shift_match(_, _, _)

\* apply_builtin on values: the stuck application when no rule matches, else
\* the reduct applied to the remaining arguments
apply_builtin_valuef(b, args) ==
    LET wn == apply_builtin(b, args)
    IN  IF wn.kind = "DoneAsIs" THEN AppliedBuiltin(b, args)
        ELSE LET v == to_valuef(normalize(wn.e.f))
             IN  IF wn.e.args = <<>> THEN v
                 ELSE normalize_one_layer(App(v, wn.e.args))

\* normalize_one_layer: one step on a node whose children are values
normalize_one_layer(e) ==
    CASE e.tag = "App" /\ Len(e.args) = 0 -> e.f
      [] e.tag = "App" /\ e.f.tag = "AppliedBuiltin" ->
            apply_builtin_valuef(e.f.b, e.f.args \o e.args)
      [] e.tag = "App" /\ e.f.tag = "Lam" ->
            normalize_one_layer(
                App(subst_shift_match(V(e.f.x, 0), e.args[1], e.f.b).v,
                    Tail(e.args)))
      [] e.tag = "BinOp" /\ e.op = "TextAppend"
            /\ e.l.tag = "ValueTextLit" /\ e.r.tag = "ValueTextLit" ->
            ValueTextLit(squash_textlit(e.l.elts \o e.r.elts))
      [] OTHER ->
            LET wn == what_next(e)
            IN  CASE wn.kind = "DoneAsIs" -> PartialExpr(e)
                  [] wn.kind = "Done" -> wn.e
                  [] OTHER -> normalize_one_layer(wn.e)

\* the arms of subst_shift that rebuild the node as it is: the mutant
subst_shift_arms_rebuild(v, kids) ==
    IF v.tag = "PartialExpr" THEN PartialExpr(kids) ELSE kids

\* the arms of subst_shift on a node whose children kids are substituted:
\* the three forms that may reduce again are handed to apply_builtin,
\* normalize_one_layer and squash_textlit
subst_shift_arms(v, kids) ==
    CASE v.tag = "AppliedBuiltin" -> apply_builtin_valuef(v.b, kids.args)
      [] v.tag = "PartialExpr" -> normalize_one_layer(kids)
      [] v.tag = "ValueTextLit" -> ValueTextLit(squash_textlit(kids.elts))
      [] OTHER -> kids

\* the match of ValueF::subst_shift: kids is the node of v with the
\* substitution done in its children (under a binder with the variable and
\* the value moved past it), v the value the arm of the node returns
subst_shift_match(var, val, v) ==
    IF v.tag = "Var"
    THEN [kids |-> v,
          v |-> IF V(v.x, v.n) = var THEN val
                ELSE LET w == shift_var(-1, var, V(v.x, v.n)) IN Var(w.x, w.n)]
    ELSE With(MapSubB(IF v.tag = "PartialExpr" THEN v.e ELSE v,
                      LAMBDA s : subst_shift_match(var, val, s).v,
                      LAMBDA y, s : subst_shift_match(under_binder(var, y),
                                                      shift(1, V(y, 0), val), s).v),
              LAMBDA kids : [kids |-> kids, v |-> subst_shift_arms(v, kids)])

\* ValueF::subst_shift
subst_shift_valuef(var, val, v) == subst_shift_match(var, val, v).v

Text1(s) == ValueTextLit(<<ITText(s)>>)
NaturalIsZeroX == AppliedBuiltin("NaturalIsZero", <<X0>>)
NaturalShowX == AppliedBuiltin("NaturalShow", <<X0>>)
\* values in WHNF with x and y free
SubstValues ==
    { NaturalIsZeroX, NaturalShowX,
      AppliedBuiltin("NaturalToInteger", <<Y0>>),
      PartialExpr(BoolIf(X0, Y0, NaturalLit(1))),
      PartialExpr(BinOp("NaturalPlus", X0, Y0)),
      PartialExpr(BinOp("TextAppend", Y0, Text1("z"))),
      PartialExpr(App(X0, <<Y0>>)),
      ValueTextLit(<<ITText("a"), ITExpr(X0), ITText("b"), ITExpr(Y0)>>),
      ValueTextLit(<<ITExpr(NaturalShowX), ITText("b")>>),
      ValueTextLit(<<ITExpr(X0), ITExpr(Y0)>>),
      Lam("x", NaturalT, ValueTextLit(<<ITExpr(X1), ITExpr(X0)>>)),
      NEListLit(<<NaturalIsZeroX, PartialExpr(BoolIf(Y0, X0, X1))>>) }

\* the variable substituted and the value it gets
SubstVals ==
    { NaturalLit(0), NaturalLit(2), BoolLit(TRUE), Text1("c"),
      ValueTextLit(<<ITText("c"), ITExpr(Y0)>>),
      AppliedBuiltin("NaturalEven", <<>>) }
SubstPairs == { [var |-> V(x, 0), val |-> w] : x \in {"x", "y"}, w \in SubstVals }

SubstInputs == { [op |-> "subst", e |-> e] : e \in SubstValues }

ValueInputs == ShiftInputs \cup ReifyInputs \cup SubstInputs

ValueInit ==
    /\ vfIn \in ValueInputs
    /\ vfOut = NoResult
    /\ NormIdle /\ EqIdle /\ TcIdle
    /\ CtxIdle /\ ThunkIdle /\ StaticIdle /\ MatchIdle

\* e.shift(delta, var), and the result shifted back by -delta
ShiftAndBack ==
    /\ vfIn.op = "shift"
    /\ vfOut = NoResult
    /\ \E there \in {shift_checked(vfIn.delta, vfIn.var, vfIn.e)} :
           vfOut' = [there |-> there,
                     back |-> IF there = <<>> THEN <<>>
                              ELSE shift_checked(-vfIn.delta, vfIn.var, there[1])]
    /\ UNCHANGED <<vfIn, nVars, eqVars, tcVars, cxVars, thVars, stVars, mvVars>>

\* normalize_to_expr_maybe_alpha(true) and normalize_to_expr (alpha = false)
\* on both values
Reify ==
    /\ vfIn.op = "reify"
    /\ vfOut = NoResult
    /\ vfOut' = [la |-> normalize_to_expr_maybe_alpha(TRUE, vfIn.l),
                 ra |-> normalize_to_expr_maybe_alpha(TRUE, vfIn.r),
                 lf |-> normalize_to_expr_maybe_alpha(FALSE, vfIn.l),
                 rf |-> normalize_to_expr_maybe_alpha(FALSE, vfIn.r)]
    /\ UNCHANGED <<vfIn, nVars, eqVars, tcVars, cxVars, thVars, stVars, mvVars>>

\* v.subst_shift(var, val) on the value the substitutions so far have left
SubstShift ==
    /\ vfIn.op = "subst"
    /\ LET from == IF vfOut = NoResult THEN vfIn.e ELSE vfOut.v
           n == IF vfOut = NoResult THEN 0 ELSE vfOut.n
       IN  /\ n < MaxSubst
           /\ \E p \in SubstPairs :
                  \E out \in {subst_shift_match(p.var, p.val, from)} :
                      vfOut' = [from |-> from, var |-> p.var, val |-> p.val,
                                kids |-> out.kids, v |-> out.v, n |-> n + 1]
    /\ UNCHANGED <<vfIn, nVars, eqVars, tcVars, cxVars, thVars, stVars, mvVars>>

ValueNext == ShiftAndBack \/ Reify \/ SubstShift

SpecValue == ValueInit /\ [][ValueNext]_vars

(***************************************************************************)
(* Claims on the operations on values.                                     *)
(***************************************************************************)
\* the sub-values of a value in order
KidSeq(e) ==
    CASE e.tag \in {"Lam", "Pi"} -> <<e.t, e.b>>
      [] e.tag = "App" -> <<e.f>> \o e.args
      [] e.tag = "AppliedBuiltin" -> e.args
      [] e.tag = "NEListLit" -> e.xs
      [] e.tag \in {"NEOptionalLit", "SomeLit", "Field"} -> <<e.e>>
      [] e.tag \in {"EmptyListLit", "EmptyOptionalLit"} -> <<e.t>>
      [] e.tag \in {"RecordLit", "RecordType"} ->
             [i \in DOMAIN Keys(e.kvs) |-> e.kvs[Keys(e.kvs)[i]]]
      [] e.tag = "BoolIf" -> <<e.cond, e.yes, e.no>>
      [] e.tag = "BinOp" -> <<e.l, e.r>>
      [] OTHER -> <<>>

\* the variables of e, each with the path to it and the number d of binders
\* of label x on the path
RECURSIVE VarOccs(_, _, _, _)
VarOccs(e, x, d, path) ==
    IF e.tag = "Var" THEN {[path |-> path, x |-> e.x, n |-> e.n, d |-> d]}
    ELSE UNION { VarOccs(KidSeq(e)[i], x,
                         IF e.tag \in {"Lam", "Pi"} /\ i = 2 /\ e.x = x
                         THEN d + 1 ELSE d,
                         Append(path, i)) : i \in DOMAIN KidSeq(e) }

\* e with every variable replaced by the same one: what e is apart from its
\* variables
RECURSIVE Erase(_)
Erase(e) == IF e.tag = "Var" THEN Var("?", 0) ELSE MapSub(e, Erase)

\* the variables of e as shift(delta, V(x, k), e) must leave them
ShiftedOccs(e, delta, x, k) ==
    { [o EXCEPT !.n = IF o.x = x /\ o.n >= k + o.d THEN o.n + delta ELSE o.n] :
        o \in VarOccs(e, x, 0, <<>>) }

\* C23: for delta >= 0, shift(-delta, v, shift(delta, v, e)) = e; shift moves
\* exactly the variables of the label of v whose index is at or above the
\* threshold, the threshold being one higher under each binder (Lam or Pi)
\* of that label, and leaves every other variable and the rest of e as it is.
C23_ShiftRoundTrip ==
    (vfIn.op = "shift" /\ vfOut # NoResult /\ vfIn.delta >= 0) =>
        /\ vfOut.there # <<>>
        /\ vfOut.back = <<vfIn.e>>
        /\ Erase(vfOut.there[1]) = Erase(vfIn.e)
        /\ VarOccs(vfOut.there[1], vfIn.var.x, 0, <<>>)
               = ShiftedOccs(vfIn.e, vfIn.delta, vfIn.var.x, vfIn.var.n)

\* a shift by 2 of x@1 that moved a variable under a binder of x, left a
\* variable of x below the threshold and a variable of y alone
C23_Witness ==
    /\ vfIn.op = "shift" /\ vfOut # NoResult
    /\ vfIn.delta = 2 /\ vfIn.var = V("x", 1)
    /\ vfOut.back = <<vfIn.e>>
    /\ \E o \in VarOccs(vfIn.e, "x", 0, <<>>) :
           o.x = "x" /\ o.d > 0 /\ o.n >= 1 + o.d
    /\ \E o \in VarOccs(vfIn.e, "x", 0, <<>>) :
           o.x = "x" /\ o.n < 1 + o.d
    /\ \E o \in VarOccs(vfIn.e, "x", 0, <<>>) : o.x = "y"

\* the labels of the binders and the variables of e, in order
RECURSIVE Names(_)
RECURSIVE NamesFrom(_, _)
NamesFrom(kids, i) ==
    IF i > Len(kids) THEN <<>> ELSE Names(kids[i]) \o NamesFrom(kids, i + 1)
Names(e) ==
    (CASE e.tag = "Var" -> <<V(e.x, e.n)>>
       [] e.tag \in {"Lam", "Pi"} -> <<e.x>>
       [] OTHER -> <<>>)
    \o NamesFrom(KidSeq(e), 1)

\* the labels of the binders of e
RECURSIVE BinderLabels(_)
BinderLabels(e) ==
    (IF e.tag \in {"Lam", "Pi"} THEN {e.x} ELSE {})
    \cup UNION { BinderLabels(KidSeq(e)[i]) : i \in DOMAIN KidSeq(e) }

\* the variables of e that a binder of e binds
BoundOccs(e) ==
    UNION { { o \in VarOccs(e, x, 0, <<>>) : o.x = x /\ o.n < o.d } :
            x \in BinderNames }

\* C24: with alpha = true the conversion of a value to an expression names
\* every binder, and every variable a binder binds, `_`, so that two values
\* that differ only in the names of bound variables give the same expression;
\* with alpha = false the labels are kept.
C24_AlphaReify ==
    (vfIn.op = "reify" /\ vfOut # NoResult) =>
        /\ vfOut.la = vfOut.ra
        /\ BinderLabels(vfOut.la) = {"_"}
        /\ Cardinality(BoundOccs(vfOut.la)) = Cardinality(BoundOccs(vfIn.l))
        /\ \A o \in BoundOccs(vfOut.la) : o.x = "_"
        /\ Cardinality(VarOccs(vfOut.la, "_", 0, <<>>))
               = Cardinality(VarOccs(vfIn.l, "_", 0, <<>>))
        /\ Names(vfOut.lf) = Names(vfIn.l)
        /\ Names(vfOut.rf) = Names(vfIn.r)

\* two values with differently named binders, one shadowing and one not, a
\* free variable among the bound ones, converted to the same expression
C24_Witness ==
    /\ vfIn.op = "reify" /\ vfOut # NoResult
    /\ vfIn.l # vfIn.r
    /\ vfOut.la = vfOut.ra
    /\ vfOut.lf # vfOut.rf
    /\ BinderLabels(vfIn.l) = {"x"}
    /\ BinderLabels(vfIn.r) = {"y", "_"}
    /\ \E o \in VarOccs(vfIn.l, "x", 0, <<>>) : o.x = "x" /\ o.n >= o.d

(***************************************************************************)
(* SimpleStaticType: the Dhall type of a Rust type, by the impls of        *)
(* dhall/src/traits/static_type.rs and the impl that                       *)
(* #[derive(SimpleStaticType)] generates (dhall_generator/src/derive.rs).  *)
(* A Rust type is a record; the type parameters of a struct or enum are    *)
(* already replaced by the types they are instantiated with.               *)
(***************************************************************************)
RPrim(name) == [kind |-> "Prim", name |-> name]
ROption(t) == [kind |-> "Option", t |-> t]
RVec(t) == [kind |-> "Vec", t |-> t]
RRef(t) == [kind |-> "Ref", t |-> t]
RTuple(ts) == [kind |-> "Tuple", ts |-> ts]
\* syn::Fields: Named (a sequence of [name, ty]), Unnamed (a sequence of
\* types), Unit
FieldsNamed(fs) == [kind |-> "Named", fs |-> fs]
FieldsUnnamed(ts) == [kind |-> "Unnamed", fs |-> ts]
FieldsUnit == [kind |-> "Unit", fs |-> <<>>]
\* syn::Data::Struct, syn::Data::Enum (a sequence of [name, fields])
RStruct(fields) == [kind |-> "Struct", fields |-> fields]
REnum(variants) == [kind |-> "Enum", variants |-> variants]

\* the record type or union type a sequence of (label, type) pairs collects to
CollectMap(pairs) ==
    [l \in {pairs[i][1] : i \in DOMAIN pairs} |->
        pairs[CHOOSE i \in DOMAIN pairs :
                  pairs[i][1] = l /\ \A j \in DOMAIN pairs :
                      pairs[j][1] = l => j <= i][2]]

\* the first error of a sequence of results, or Ok of the sequence of values
Collect(rs) ==
    LET bad == {i \in DOMAIN rs : ~rs[i].ok}
    IN  IF bad # {} THEN rs[CHOOSE i \in bad : \A j \in bad : i <= j]
        ELSE Ok([i \in DOMAIN rs |-> rs[i].r])

RECURSIVE get_simple_static_type(_)

\* derive_for_struct numbering the unnamed fields from 0: the mutant
derive_for_struct_from_zero(data) ==
    LET fields ==
            CASE data.kind = "Named" ->
                     [i \in DOMAIN data.fs |-> <<data.fs[i].name, data.fs[i].ty>>]
              [] data.kind = "Unnamed" ->
                     [i \in DOMAIN data.fs |-> <<"_" \o ToString(i - 1), data.fs[i]>>]
              [] data.kind = "Unit" -> <<>>
    IN  Try(Collect([i \in DOMAIN fields |-> get_simple_static_type(fields[i][2])]),
            LAMBDA tys :
                Ok(RecordType(CollectMap(
                       [i \in DOMAIN fields |-> <<fields[i][1], tys[i]>>]))))

\* derive_for_struct: the record type of the fields, a field whose type has
\* no SimpleStaticType rejected by the where clause
derive_for_struct(data) ==
    LET fields ==
            CASE data.kind = "Named" ->
                     [i \in DOMAIN data.fs |-> <<data.fs[i].name, data.fs[i].ty>>]
              [] data.kind = "Unnamed" ->
                     [i \in DOMAIN data.fs |-> <<"_" \o ToString(i), data.fs[i]>>]
              [] data.kind = "Unit" -> <<>>
    IN  Try(Collect([i \in DOMAIN fields |-> get_simple_static_type(fields[i][2])]),
            LAMBDA tys :
                Ok(RecordType(CollectMap(
                       [i \in DOMAIN fields |-> <<fields[i][1], tys[i]>>]))))

\* the type of one variant of derive_for_enum
VariantType(v) ==
    CASE v.fields.kind = "Unnamed" /\ Len(v.fields.fs) = 0 ->
             Err("Nullary variants are not supported")
      [] v.fields.kind = "Unnamed" /\ Len(v.fields.fs) > 1 ->
             Err("Variants with more than one field are not supported")
      [] v.fields.kind = "Unnamed" -> Ok(v.fields.fs[1])
      [] v.fields.kind = "Named" -> Err("Named variants are not supported")
      [] v.fields.kind = "Unit" -> Err("Nullary variants are not supported")

\* derive_for_enum: the union type of the variants
derive_for_enum(variants) ==
    Try(Collect([i \in DOMAIN variants |-> VariantType(variants[i])]), LAMBDA vts :
        Try(Collect([i \in DOMAIN vts |-> get_simple_static_type(vts[i])]),
            LAMBDA tys :
                Ok(UnionType(CollectMap(
                       [i \in DOMAIN variants |-> <<variants[i].name, <<tys[i]>>>>])))))

derive_simple_static_type_inner(input) ==
    CASE input.kind = "Struct" -> derive_for_struct(input.fields)
      [] input.kind = "Enum" /\ input.variants = <<>> ->
             Err("Empty enums are not supported")
      [] input.kind = "Enum" -> derive_for_enum(input.variants)

\* T::get_simple_static_type(): the impl for the type T, or the error of the
\* compiler when T has none
get_simple_static_type(ty) ==
    CASE ty.kind = "Prim" ->
             Ok(BT(CASE ty.name = "bool" -> "Bool"
                     [] ty.name \in {"Natural", "u32", "u64"} -> "Natural"
                     [] ty.name \in {"Integer", "i32", "i64"} -> "Integer"
                     [] ty.name = "String" -> "Text"))
      [] ty.kind = "Tuple" ->
             IF Len(ty.ts) # 2 THEN Err("SimpleStaticType is not implemented")
             ELSE Try(get_simple_static_type(ty.ts[1]), LAMBDA ta :
                  Try(get_simple_static_type(ty.ts[2]), LAMBDA tb :
                      Ok(RecordType([l \in {"_1", "_2"} |->
                                        IF l = "_1" THEN ta ELSE tb]))))
      [] ty.kind = "Option" ->
             Try(get_simple_static_type(ty.t), LAMBDA t :
                 Ok(App(BT("Optional"), <<t>>)))
      [] ty.kind = "Vec" ->
             Try(get_simple_static_type(ty.t), LAMBDA t :
                 Ok(App(BT("List"), <<t>>)))
      [] ty.kind = "Ref" -> get_simple_static_type(ty.t)
      [] ty.kind \in {"Struct", "Enum"} -> derive_simple_static_type_inner(ty)

RBool == RPrim("bool")
RString == RPrim("String")
\* struct D();
StructD == RStruct(FieldsUnnamed(<<>>))
StaticFieldTypes == {RBool, ROption(RString), StructD}
TypeSeqs(n) == UNION { [1..k -> StaticFieldTypes] : k \in 0..n }
TupleInputs == { RTuple(ts) : ts \in TypeSeqs(MaxFields) }
TupleStructInputs == { RStruct(FieldsUnnamed(ts)) : ts \in TypeSeqs(MaxFields) }
NamedFieldTypes == {RBool, ROption(RBool), RRef(RBool), RPrim("u64")}
NamedStructInputs ==
    { RStruct(FieldsNamed(<<[name |-> "field1", ty |-> a],
                            [name |-> "field2", ty |-> b]>>)) :
        a \in NamedFieldTypes, b \in NamedFieldTypes }
    \cup { RStruct(FieldsNamed(<<[name |-> "field2", ty |-> a]>>)) :
             a \in NamedFieldTypes }
    \cup { RStruct(FieldsUnit), RStruct(FieldsNamed(<<>>)) }
EnumInputs ==
    { REnum(<<[name |-> "A", fields |-> FieldsUnnamed(<<a>>)],
              [name |-> "B", fields |-> FieldsUnnamed(<<b>>)]>>) :
        a \in StaticFieldTypes, b \in {RString, RPrim("i32")} }
    \cup { REnum(<<[name |-> "A", fields |-> f]>>) :
             f \in {FieldsUnnamed(<<>>), FieldsUnnamed(<<RBool>>),
                    FieldsUnnamed(<<RBool, RBool>>), FieldsUnit,
                    FieldsNamed(<<[name |-> "field1", ty |-> RBool]>>)} }
    \cup { REnum(<<>>) }
WrapperInputs ==
    UNION { {ROption(t), RRef(t), RVec(t), ROption(RRef(t))} :
            t \in {RBool, RString, RPrim("Natural"), RPrim("Integer"),
                   RTuple(<<RBool, RString>>), RTuple(<<RBool>>), StructD} }
StaticInputs ==
    TupleInputs \cup TupleStructInputs \cup NamedStructInputs \cup EnumInputs
    \cup WrapperInputs

StaticInit ==
    /\ stIn \in StaticInputs
    /\ stOut = NoResult
    /\ NormIdle /\ EqIdle /\ TcIdle
    /\ CtxIdle /\ ThunkIdle /\ ValueIdle /\ MatchIdle

\* <T as SimpleStaticType>::get_simple_static_type()
GetSimpleStaticType ==
    /\ stOut = NoResult
    /\ \E out \in {get_simple_static_type(stIn)} : stOut' = [out |-> out]
    /\ UNCHANGED <<stIn, nVars, eqVars, tcVars, cxVars, thVars, vfVars, mvVars>>

StaticNext == GetSimpleStaticType

SpecStatic == StaticInit /\ [][StaticNext]_vars

(***************************************************************************)
(* Claims on SimpleStaticType.                                             *)
(***************************************************************************)
\* the labels _1 .. _n
PositionLabels(n) == { "_" \o ToString(i) : i \in 1..n }
PositionOf(l, n) == CHOOSE i \in 1..n : l = "_" \o ToString(i)
\* the record type with the labels _1 .. _n for the types ts
PositionalRecord(ts) ==
    RecordType([l \in PositionLabels(Len(ts)) |->
                   get_simple_static_type(ts[PositionOf(l, Len(ts))]).r])
AllMapped(ts) == \A i \in DOMAIN ts : get_simple_static_type(ts[i]).ok

StaticStructural ==
    LET ty == stIn
        out == stOut.out
    IN  /\ (ty.kind = "Struct" /\ ty.fields.kind = "Named"
              /\ AllMapped([i \in DOMAIN ty.fields.fs |-> ty.fields.fs[i].ty])) =>
               /\ out.ok /\ out.r.tag = "RecordType"
               /\ DOMAIN out.r.kvs = {ty.fields.fs[i].name : i \in DOMAIN ty.fields.fs}
               /\ \A i \in DOMAIN ty.fields.fs :
                      out.r.kvs[ty.fields.fs[i].name]
                          = get_simple_static_type(ty.fields.fs[i].ty).r
        /\ (ty.kind = "Struct" /\ ty.fields.kind = "Unnamed"
              /\ AllMapped(ty.fields.fs)) =>
               /\ out = Ok(PositionalRecord(ty.fields.fs))
               /\ Len(ty.fields.fs) = 2 =>
                      out = get_simple_static_type(RTuple(ty.fields.fs))
        /\ (ty.kind = "Tuple" /\ out.ok) => out = Ok(PositionalRecord(ty.ts))
        /\ (ty.kind = "Tuple" /\ Len(ty.ts) = 2 /\ AllMapped(ty.ts)) => out.ok
        /\ (ty.kind = "Struct" /\ ty.fields.fs = <<>>) =>
               out = Ok(RecordType(EmptyMap))
        /\ (ty.kind = "Enum" /\ ty.variants # <<>>
              /\ \A i \in DOMAIN ty.variants :
                     /\ ty.variants[i].fields.kind = "Unnamed"
                     /\ Len(ty.variants[i].fields.fs) = 1
                     /\ AllMapped(ty.variants[i].fields.fs)) =>
               /\ out.ok /\ out.r.tag = "UnionType"
               /\ DOMAIN out.r.kts = {ty.variants[i].name : i \in DOMAIN ty.variants}
               /\ \A i \in DOMAIN ty.variants :
                      out.r.kts[ty.variants[i].name]
                          = <<get_simple_static_type(ty.variants[i].fields.fs[1]).r>>
        /\ (ty.kind = "Option" /\ AllMapped(<<ty.t>>)) =>
               out = Ok(App(BT("Optional"), <<get_simple_static_type(ty.t).r>>))
        /\ ty.kind = "Ref" => out = get_simple_static_type(ty.t)

\* C25: the derived and built-in SimpleStaticType mappings are structural:
\* named fields give the record type keyed by the field names, n unnamed
\* fields of a tuple struct or tuple the record type with the labels _1 .. _n,
\* no fields the empty record type, an enum whose variants carry one unnamed
\* field each the union type keyed by the variant names, Option<T> gives
\* Optional T and &T the type of T; so C<T>(T, Option<String>) and
\* (T, Option<String>) have equal types.
C25_StaticTypes == stOut # NoResult => StaticStructural

\* the tuple struct C<bool>(bool, Option<String>) mapped to
\* { _1 : Bool, _2 : Optional Text }, the type of the tuple
C25_Witness ==
    /\ stOut # NoResult
    /\ stIn = RStruct(FieldsUnnamed(<<RBool, ROption(RString)>>))
    /\ stOut.out = Ok(RecordType([l \in {"_1", "_2"} |->
                          IF l = "_1" THEN BT("Bool")
                          ELSE App(BT("Optional"), <<BT("Text")>>)]))
    /\ stOut.out = get_simple_static_type(RTuple(<<RBool, ROption(RString)>>))

(***************************************************************************)
(* iter_patterns: match_vec! and destructure_iter!.  The elements are      *)
(* Option<isize>: <<>> is None, <<n>> is Some(n).  The result of a macro   *)
(* is an Option too.  A pattern is a sequence of items: a single item      *)
(* pattern (Some(x), None, or a binder x), a variable length pattern x..,  *)
(* the variable length pattern Some(x).. of a unary variant, or `..`.      *)
(***************************************************************************)
PSome == [kind |-> "item", p |-> "Some"]
PNone == [kind |-> "item", p |-> "None"]
PBind == [kind |-> "item", p |-> "binder"]
PRest == [kind |-> "rest"]
PVariant == [kind |-> "variant"]
PIgnore == [kind |-> "ignore"]
IsVariableLength(p) == p.kind \in {"rest", "variant", "ignore"}

\* `if let Some($x) = item`: does the single item pattern match, what it binds
ItemMatches(p, x) ==
    \/ p.p = "binder"
    \/ p.p = "Some" /\ x # <<>>
    \/ p.p = "None" /\ x = <<>>
ItemBinds(p, x) == IF p.p = "Some" THEN x[1] ELSE x

NoBinds == [i \in {} |-> 0]
Bind(binds, i, val) == [j \in DOMAIN binds \cup {i} |-> IF j = i THEN val ELSE binds[j]]

\* @make_pat: the slice pattern of an arm, Some(x).. turned into x..
make_pat(pat) == [i \in DOMAIN pat |-> IF pat[i].kind = "variant" THEN PRest ELSE pat[i]]

\* the match of a slice pattern on vec.as_slice(): <<>> when it does not
\* match, else the bindings, x.. bound to a subslice
SliceMatch(spat, v) ==
    LET vl == {i \in DOMAIN spat : IsVariableLength(spat[i])}
    IN  IF vl = {}
        THEN IF Len(v) = Len(spat)
                /\ \A i \in DOMAIN spat : ItemMatches(spat[i], v[i])
             THEN <<[i \in DOMAIN spat |-> ItemBinds(spat[i], v[i])]>>
             ELSE <<>>
        ELSE LET k == CHOOSE i \in vl : TRUE
                 after == Len(spat) - k
                 at(i) == IF i < k THEN i ELSE Len(v) - (Len(spat) - i)
             IN  IF Len(v) >= Len(spat) - 1
                    /\ \A i \in DOMAIN spat \ {k} : ItemMatches(spat[i], v[at(i)])
                 THEN <<[i \in DOMAIN spat |->
                           IF i = k THEN SubSeq(v, k, Len(v) - after)
                           ELSE ItemBinds(spat[i], v[at(i)])]>>
                 ELSE <<>>

\* @make_filter: every element of the subslice of Some(x).. is a Some
make_filter(pat, binds) ==
    \A i \in DOMAIN pat :
        pat[i].kind = "variant" => \A j \in DOMAIN binds[i] : binds[i][j] # <<>>

\* the iterator with its last element taken by next_back()
ButLast(iter) == SubSeq(iter, 1, Len(iter) - 1)

\* @match_backwards taking the patterns after the variable length one in
\* textual order: the mutant
RECURSIVE match_backwards_textual(_, _, _, _, _)
match_backwards_textual(iter, pat, k, j, binds) ==
    LET i == k + 1 + (Len(pat) - j)
    IN  IF j = k
        THEN <<CASE pat[k].kind = "rest" -> Bind(binds, k, iter)
                 [] pat[k].kind = "variant" ->
                        Bind(binds, k, [n \in DOMAIN iter |-> iter[n][1]])
                 [] pat[k].kind = "ignore" -> binds>>
        ELSE IF iter # <<>> /\ ItemMatches(pat[i], iter[Len(iter)])
        THEN match_backwards_textual(ButLast(iter), pat, k, j - 1,
                 Bind(binds, i, ItemBinds(pat[i], iter[Len(iter)])))
        ELSE <<>>

\* @match_backwards: the single item patterns after the variable length
\* pattern k each wrap the body built so far, so the last one runs first; each
\* takes an element with next_back().  Then the variable length pattern binds
\* the iterator, Some(x).. mapping the elements to what they hold
RECURSIVE match_backwards(_, _, _, _, _)
match_backwards(iter, pat, k, j, binds) ==
    IF j = k
    THEN <<CASE pat[k].kind = "rest" -> Bind(binds, k, iter)
             [] pat[k].kind = "variant" ->
                    Bind(binds, k, [n \in DOMAIN iter |-> iter[n][1]])
             [] pat[k].kind = "ignore" -> binds>>
    ELSE IF iter # <<>> /\ ItemMatches(pat[j], iter[Len(iter)])
    THEN match_backwards(ButLast(iter), pat, k, j - 1,
             Bind(binds, j, ItemBinds(pat[j], iter[Len(iter)])))
    ELSE <<>>

\* @match_forwards from the i-th pattern on: a single item pattern takes an
\* element with next(); at the end no element may remain
RECURSIVE match_forwards(_, _, _, _)
match_forwards(iter, pat, i, binds) ==
    IF i > Len(pat) THEN (IF iter # <<>> THEN <<>> ELSE <<binds>>)
    ELSE IF IsVariableLength(pat[i])
    THEN match_backwards(iter, pat, i, Len(pat), binds)
    ELSE IF iter # <<>> /\ ItemMatches(pat[i], Head(iter))
    THEN match_forwards(Tail(iter), pat, i + 1,
             Bind(binds, i, ItemBinds(pat[i], Head(iter))))
    ELSE <<>>

\* destructure_iter!(iter; [pat] => body): Some(the bindings the body sees)
destructure_iter(iter, pat) == match_forwards(iter, pat, 1, NoBinds)

RECURSIVE SumSeq(_)
SumSeq(s) == IF s = <<>> THEN 0 ELSE Head(s) + SumSeq(Tail(s))

\* the arms of the test, and arms with patterns on both sides of a variable
\* length pattern; body is evaluated on the bindings b, indexed by the
\* position of the pattern
TestArms ==
    << [pat |-> <<PSome, PNone, PNone>>, body |-> "4"],
       [pat |-> <<PSome, PNone>>, body |-> "2"],
       [pat |-> <<PNone, PSome>>, body |-> "1"],
       [pat |-> <<PNone, PRest>>, body |-> "3"],
       [pat |-> <<PRest, PSome, PSome, PNone>>, body |-> "y - z"],
       [pat |-> <<PVariant>>, body |-> "ys.sum()"],
       [pat |-> <<>>, body |-> "0"],
       [pat |-> <<PIgnore>>, body |-> "-1"] >>
MiddleArms ==
    << [pat |-> <<PSome, PVariant, PNone>>, body |-> "a + ys.sum()"],
       [pat |-> <<PBind, PRest, PSome, PBind>>, body |-> "(xs, z)"],
       [pat |-> <<PNone>>, body |-> "0"] >>
Body(name, b) ==
    CASE name = "4" -> 4
      [] name = "2" -> 2
      [] name = "1" -> 1
      [] name = "3" -> 3
      [] name = "y - z" -> b[2] - b[3]
      [] name = "ys.sum()" -> SumSeq(b[1])
      [] name = "0" -> 0
      [] name = "-1" -> -1
      [] name = "a + ys.sum()" -> b[1] + SumSeq(b[2])
      [] name = "(xs, z)" -> <<b[2], b[3]>>

\* the arms of the match on vec.as_slice() in textual order from the k-th
\* on: the first whose slice pattern matches and whose filter holds consumes
\* the vector with destructure_iter; `_ => None` at the end
RECURSIVE match_vec_from(_, _, _)
match_vec_from(arms, v, k) ==
    IF k > Len(arms) THEN <<>>
    ELSE With(SliceMatch(make_pat(arms[k].pat), v), LAMBDA m :
             IF m # <<>> /\ make_filter(arms[k].pat, m[1])
             THEN With(destructure_iter(v, arms[k].pat), LAMBDA d :
                      IF d = <<>> THEN <<>> ELSE <<Body(arms[k].body, d[1])>>)
             ELSE match_vec_from(arms, v, k + 1))

match_vec(arms, v) == match_vec_from(arms, v, 1)

VecElements == {<<>>, <<1>>, <<2>>, <<5>>}
VecInputs == UNION { [1..n -> VecElements] : n \in 0..MaxVec }

MatchInit ==
    /\ mvIn \in { [arms |-> a, v |-> v] : a \in {TestArms, MiddleArms}, v \in VecInputs }
    /\ mvOut = NoResult
    /\ NormIdle /\ EqIdle /\ TcIdle
    /\ CtxIdle /\ ThunkIdle /\ ValueIdle /\ StaticIdle

\* match_vec!(v; arms)
MatchVec ==
    /\ mvOut = NoResult
    /\ \E out \in {match_vec(mvIn.arms, mvIn.v)} : mvOut' = [out |-> out]
    /\ UNCHANGED <<mvIn, nVars, eqVars, tcVars, cxVars, thVars, vfVars, stVars>>

MatchNext == MatchVec

SpecMatch == MatchInit /\ [][MatchNext]_vars

(***************************************************************************)
(* Claims on match_vec!.                                                   *)
(***************************************************************************)
\* the positions of the pattern before and after its variable length item
VarAt(pat) == {i \in DOMAIN pat : IsVariableLength(pat[i])}
Before(pat) == {i \in DOMAIN pat : \A k \in VarAt(pat) : i < k}
After(pat) == {i \in DOMAIN pat : \E k \in VarAt(pat) : i > k}
\* the element the i-th pattern stands for: counted from the front before
\* the variable length item, from the end after it
ElementFor(pat, v, i) ==
    IF i \in Before(pat) THEN i ELSE Len(v) - (Len(pat) - i)
\* the elements between those of the single item patterns
Between(pat, v) ==
    SubSeq(v, Cardinality(Before(pat)) + 1, Len(v) - Cardinality(After(pat)))

\* the arm matches: the lengths fit, every single item pattern matches its
\* element, and Some(x).. stands for elements that are all Some
ArmMatches(pat, v) ==
    /\ IF VarAt(pat) = {} THEN Len(v) = Len(pat) ELSE Len(v) >= Len(pat) - 1
    /\ \A i \in Before(pat) \cup After(pat) :
           ItemMatches(pat[i], v[ElementFor(pat, v, i)])
    /\ \A k \in VarAt(pat) :
           pat[k].kind = "variant" =>
               \A j \in DOMAIN Between(pat, v) : Between(pat, v)[j] # <<>>

\* what the body of the arm sees
ArmBinds(pat, v) ==
    [i \in {j \in DOMAIN pat : pat[j].kind # "ignore"} |->
        CASE pat[i].kind = "item" -> ItemBinds(pat[i], v[ElementFor(pat, v, i)])
          [] pat[i].kind = "rest" -> Between(pat, v)
          [] pat[i].kind = "variant" ->
                 [j \in DOMAIN Between(pat, v) |-> Between(pat, v)[j][1]]]

MatchingArms == {k \in DOMAIN mvIn.arms : ArmMatches(mvIn.arms[k].pat, mvIn.v)}
FirstMatchingArm == CHOOSE k \in MatchingArms : \A j \in MatchingArms : k <= j

\* C26: match_vec! gives Some(body) of the first arm in textual order whose
\* slice pattern matches, a Some(x).. part standing for elements of that
\* variant only, and None when no arm matches; the single item patterns after
\* a variable length part match the last elements of the vector, and the
\* binder of the variable length part gets the elements in between, in order.
C26_MatchVec ==
    mvOut # NoResult =>
        IF MatchingArms = {} THEN mvOut.out = <<>>
        ELSE mvOut.out =
                 <<Body(mvIn.arms[FirstMatchingArm].body,
                        ArmBinds(mvIn.arms[FirstMatchingArm].pat, mvIn.v))>>

\* [x, xs.., Some(z), y] on a vector of four: xs gets the second element, z
\* the third; an earlier arm matched the slice pattern but not its filter
C26_Witness ==
    /\ mvOut # NoResult
    /\ mvIn.arms = MiddleArms
    /\ Len(mvIn.v) = 4
    /\ mvIn.v[3] # <<>>
    /\ MatchingArms # {}
    /\ FirstMatchingArm = 2
    /\ SliceMatch(make_pat(MiddleArms[1].pat), mvIn.v) # <<>>
    /\ mvOut.out = << <<SubSeq(mvIn.v, 2, 2), mvIn.v[3][1]>> >>
    /\ mvIn.v[3] # mvIn.v[2]

(***************************************************************************)
(* Substitution keeps values in WHNF.                                      *)
(***************************************************************************)
\* the values a value holds: of a PartialExpr, the children of its node
SubValues(v) == IF v.tag = "PartialExpr" THEN SubExprs(v.e) ELSE SubExprs(v)

\* no builtin application that a rule reduces, no text literal with a literal
\* in an interpolation or with two text runs side by side, at any depth
RECURSIVE WhnfInvariant(_)
WhnfInvariant(v) ==
    /\ v.tag = "AppliedBuiltin" => apply_builtin(v.b, v.args).kind = "DoneAsIs"
    /\ v.tag = "ValueTextLit" =>
          /\ \A i \in DOMAIN v.elts :
                 v.elts[i].kind = "Expr" => v.elts[i].e.tag # "ValueTextLit"
          /\ \A i \in 1..(Len(v.elts) - 1) :
                 ~(v.elts[i].kind = "Text" /\ v.elts[i + 1].kind = "Text")
    /\ \A s \in SubValues(v) : WhnfInvariant(s)

\* C27: substituting into an AppliedBuiltin returns apply_builtin of the
\* substituted arguments, into a PartialExpr normalize_one_layer of the
\* substituted node, into a TextLit squash_textlit of the substituted
\* segments; after any sequence of substitutions the value holds no builtin
\* application that a rule reduces and no text literal with a literal in an
\* interpolation or two adjacent text runs
C27_SubstKeepsWhnf ==
    (vfIn # NoResult /\ vfIn.op = "subst" /\ vfOut # NoResult) =>
        LET from == vfOut.from
            kids == vfOut.kids
        IN  /\ from.tag = "AppliedBuiltin" =>
                  vfOut.v = apply_builtin_valuef(from.b, kids.args)
            /\ from.tag = "PartialExpr" =>
                  vfOut.v = normalize_one_layer(kids)
            /\ from.tag = "ValueTextLit" =>
                  vfOut.v = ValueTextLit(squash_textlit(kids.elts))
            /\ WhnfInvariant(vfOut.v)

\* a second substitution in a row, into a text literal whose last
\* interpolation becomes a literal: the four segments end as one text run
C27_Witness ==
    /\ vfIn # NoResult /\ vfIn.op = "subst" /\ vfOut # NoResult
    /\ vfOut.n = 2
    /\ vfOut.from = ValueTextLit(<<ITText("acb"), ITExpr(Y0)>>)
    /\ vfOut.v = Text1("acbc")

(***************************************************************************)
(* Builtins reduce on a matching prefix of their arguments.                *)
(***************************************************************************)
\* the number of arguments the rules of builtin b take, 0 when it has none
PatternArity(b) ==
    CASE b \in {"OptionalNone", "NaturalIsZero", "NaturalEven", "NaturalOdd",
                "NaturalToInteger", "NaturalShow", "IntegerShow",
                "NaturalBuild"} -> 1
      [] b \in {"ListLength", "ListHead", "ListLast", "ListReverse",
                "ListIndexed", "ListBuild", "OptionalBuild"} -> 2
      [] b = "NaturalFold" -> 4
      [] b \in {"ListFold", "OptionalFold"} -> 5
      [] OTHER -> 0

\* the literal the rules of builtin b ask for among their arguments
PatternShape(b, args) ==
    CASE b \in {"NaturalIsZero", "NaturalEven", "NaturalOdd", "NaturalToInteger",
                "NaturalShow", "NaturalFold"} -> args[1].tag = "NaturalLit"
      [] b = "IntegerShow" -> args[1].tag = "IntegerLit"
      [] b \in {"ListLength", "ListHead", "ListLast", "ListReverse",
                "ListIndexed", "ListFold"} ->
            args[2].tag \in {"EmptyListLit", "NEListLit"}
      [] b = "OptionalFold" ->
            args[2].tag \in {"EmptyOptionalLit", "NEOptionalLit"}
      [] OTHER -> TRUE

\* the length of the prefix of args a rule of b matches, 0 when none does
MatchedPrefix(b, args) ==
    IF PatternArity(b) > 0 /\ Len(args) >= PatternArity(b) /\ PatternShape(b, args)
    THEN PatternArity(b) ELSE 0

\* what C28 states of b applied to args, normalized, with out the result
BuiltinPrefixRule(b, args, out) ==
    LET k == MatchedPrefix(b, args)
        wn == apply_builtin(b, args)
    IN  IF k = 0
        THEN wn = DoneAsIs /\ out = App(Builtin(b), args)
        ELSE /\ wn.kind = "Continue"
             /\ wn.e.tag = "App"
             /\ wn.e.args = Rest(args, k)
             /\ out = normalize(wn.e)

\* C28: a builtin applied to normalized arguments reduces exactly when a
\* prefix of the arguments matches the arity and shape of a rule of the
\* builtin: when none does the application is returned as it is, when one
\* does the reduct is applied to the remaining arguments in their order and
\* the result is the normal form of that application
C28_BuiltinPrefix ==
    (nIn # NoResult /\ nIn.tag = "App" /\ nIn.f.tag = "Builtin"
        /\ nOut \notin {NoResult, StackOverflow}) =>
        With(MapSeq(nIn.args, normalize),
             LAMBDA args : BuiltinPrefixRule(nIn.f.name, args, nOut))

\* Natural/fold on six arguments: the rule takes four, the reduct is applied
\* to 1 and 2 in this order and the first one comes out
C28_Witness ==
    /\ nIn = App(Builtin("NaturalFold"),
                 <<NaturalLit(1), NatToNatToNat,
                   Lam("f", NatToNatToNat, Var("f", 0)),
                   FirstOfTwo, NaturalLit(1), NaturalLit(2)>>)
    /\ nOut = NaturalLit(1)

(***************************************************************************)
(* Projection and selection on a record literal.                           *)
(***************************************************************************)
\* the input is a projection or a selection on a record literal; Normalize
\* has returned
RecordAccessDone(tag) ==
    /\ nIn # NoResult /\ nIn.tag = tag /\ nIn.e.tag = "RecordLit"
    /\ nOut \notin {NoResult, StackOverflow}

\* the result of a projection: a record literal with exactly the labels ls,
\* each bound to the normal form of its value in the record
ProjectsOnto(ls) ==
    /\ nOut.tag = "RecordLit"
    /\ DOMAIN nOut.kvs = ls
    /\ \A l \in ls \cap DOMAIN nIn.e.kvs : nOut.kvs[l] = normalize(nIn.e.kvs[l])

\* the result of a selection: the value of the label, the selection on the
\* normalized record when the record has no such label
Selects(l) ==
    IF l \in DOMAIN nIn.e.kvs THEN nOut = normalize(nIn.e.kvs[l])
    ELSE nOut = Field(MapSub(nIn.e, normalize), l)

\* C29: the projection of a record literal onto the labels ls is a record
\* literal with exactly the labels ls, each bound to its value in the record,
\* the empty record literal when ls is empty; the selection of l from a
\* record literal is the value of l, and stays as it is when l is absent
C29_ProjectionField ==
    /\ RecordAccessDone("Projection") =>
          /\ ProjectsOnto(nIn.ls)
          /\ nIn.ls = {} => nOut = RecordLit(EmptyMap)
    /\ RecordAccessDone("Field") => Selects(nIn.l)

\* the same for the projections onto labels the record has
C29_ProjectionOfPresent ==
    /\ (RecordAccessDone("Projection") /\ nIn.ls \subseteq DOMAIN nIn.e.kvs) =>
          /\ ProjectsOnto(nIn.ls)
          /\ nIn.ls = {} => nOut = RecordLit(EmptyMap)
    /\ RecordAccessDone("Field") => Selects(nIn.l)

(***************************************************************************)
(* Natural/toInteger keeps the value.                                      *)
(***************************************************************************)
\* C30: Natural/toInteger on a Natural literal n normalizes to the Integer
\* literal of the same value, for every n of the machine representation:
\* never negative, never another number than n
C30_NaturalToInteger ==
    (nIn # NoResult /\ nIn.tag = "App" /\ nIn.f = Builtin("NaturalToInteger")
        /\ Len(nIn.args) = 1 /\ nIn.args[1].tag = "NaturalLit"
        /\ nOut # NoResult) =>
        /\ nOut.tag = "IntegerLit"
        /\ nOut.val >= 0
        /\ nOut.val = nIn.args[1].val

\* the same for the literals up to the largest Integer
C30_UpToLargestInteger ==
    (nIn # NoResult /\ nIn.tag = "App" /\ nIn.f = Builtin("NaturalToInteger")
        /\ Len(nIn.args) = 1 /\ nIn.args[1].tag = "NaturalLit"
        /\ nIn.args[1].val < 2 ^ (UsizeBits - 1)
        /\ nOut # NoResult) =>
        nOut = IntegerLit(nIn.args[1].val)

====
